---- MODULE Spec2Model ----
(***************************************************************************)
(* Chatify client-side end-to-end encryption: hybrid cipher (crypto.js),   *)
(* device-bound key manager (keyManager.js), auth store and chat store.    *)
(*                                                                         *)
(* Cryptographic primitives are modelled symbolically: an AES-GCM          *)
(* ciphertext records the key, the iv and the data it was made from and    *)
(* decrypts only under the same key and iv with an intact tag; an RSA-OAEP *)
(* wrapping records the key pair it was made for and unwraps only under    *)
(* that pair's private key with intact padding.                            *)
(***************************************************************************)
EXTENDS Integers, Sequences, FiniteSets, TLC

\* ------------------------------------------------------------------ bounds
MaxLen == 2          \* longest plaintext, in code units
MaxKeyPairs == 2     \* RSA key pairs generated in one run
MaxDeviceKeys == 2   \* device keys generated in one run
MaxMessages == 2     \* messages the backend stores in one run

\* ------------------------------------------------------- text and encodings
\* Code units of a JavaScript string: "a" an ordinary character, "F" the
\* fixed fallback text taken as one symbol, "BOM" U+FEFF, "LS" a lone
\* surrogate, "FFFD" the replacement character.
Chars == {"a", "F", "BOM", "LS"}

RECURSIVE SeqsUpTo(_, _)
SeqsUpTo(S, n) ==
  IF n = 0 THEN {<<>>}
  ELSE LET shorter == SeqsUpTo(S, n - 1)
       IN shorter \cup {Append(s, c) : s \in shorter, c \in S}

Plaintexts == SeqsUpTo(Chars, MaxLen)

\* The value decryptMessagePayload returns from its catch block.
FallbackText == <<"F">>

\* new TextEncoder().encode(s): the string is first converted to scalar
\* values, a lone surrogate becoming U+FFFD, then to UTF-8.
TextEncoder_encode(s) ==
  [k |-> "utf8", s |-> [i \in 1..Len(s) |-> IF s[i] = "LS" THEN "FFFD" ELSE s[i]]]

\* new TextDecoder().decode(bytes): ignoreBOM is false by default, so one
\* leading byte order mark is dropped from the output.
TextDecoder_decode(bytes) ==
  IF Len(bytes.s) > 0 /\ bytes.s[1] = "BOM" THEN Tail(bytes.s) ELSE bytes.s

\* Results of operations that may throw.
Ok(v) == [ok |-> TRUE, val |-> v]
Throw(msg) == [ok |-> FALSE, err |-> msg]

\* A base64 string is the bytes it decodes to plus its spelling: "canonical"
\* is what btoa produces, "slack" is another spelling atob decodes to the
\* same bytes (non-zero discarded trailing bits, dropped padding, embedded
\* whitespace), "invalid" has a character outside the alphabet.
Forms == {"canonical", "slack", "invalid"}

arrayBufferToBase64(buffer) == [t |-> "string", bytes |-> buffer, form |-> "canonical"]

base64ToArrayBuffer(base64) ==
  IF base64.form = "invalid" THEN Throw("InvalidCharacterError") ELSE Ok(base64.bytes)

Undefined == [t |-> "undefined"]

\* `!v` for the values a payload field can hold: undefined and "" are falsy.
EmptyString == [t |-> "string", bytes |-> [k |-> "empty"], form |-> "canonical"]
Falsy(v) == v.t = "undefined" \/ v = EmptyString

\* String constants that are compared but never decoded.
Str(s) == [t |-> "string", s |-> s]

\* -------------------------------------------------------- platform crypto
\* Values crypto.getRandomValues / generateKey can return for one-time AES
\* keys and for 12-byte IVs.
AesKeys == {"aes1", "aes2"}
Ivs == {"iv1", "iv2"}

KeyIds == 1..MaxKeyPairs

\* crypto.subtle.encrypt({name: "AES-GCM", iv}, key, data)
AesGcmEncrypt(key, iv, data) == [k |-> "gcm", key |-> key, iv |-> iv, data |-> data]

\* crypto.subtle.decrypt({name: "AES-GCM", iv}, key, ct): the tag verifies
\* only for the unmodified ciphertext under the key and iv that made it.
AesGcmDecrypt(key, iv, ct) ==
  IF ct.k = "gcm" /\ ct.key = key /\ ct.iv = iv THEN Ok(ct.data) ELSE Throw("OperationError")

\* Key usages given to generateKey / importKey; an operation on a key whose
\* usages do not list it throws InvalidAccessError.
PublicUsages == {"encrypt", "wrapKey"}
PrivateUsages == {"decrypt", "unwrapKey"}

\* crypto.subtle.wrapKey("raw", aesKey, publicKey, {name: "RSA-OAEP"})
RsaOaepWrap(aesKey, publicKey) ==
  IF "wrapKey" \in publicKey.usages
  THEN Ok([k |-> "oaep", for |-> publicKey.id, key |-> aesKey])
  ELSE Throw("InvalidAccessError")

\* crypto.subtle.unwrapKey("raw", wrapped, privateKey, ...): the key must
\* allow unwrapKey, and the padding check passes only for an unmodified
\* wrapping under the matching private key.
RsaOaepUnwrap(wrapped, privateKey) ==
  IF "unwrapKey" \notin privateKey.usages THEN Throw("InvalidAccessError")
  ELSE IF wrapped.k = "oaep" /\ wrapped.for = privateKey.id THEN Ok(wrapped.key)
  ELSE Throw("OperationError")

\* ------------------------------------------------- Hybrid Cipher (crypto.js)
\* The id stands for the key material the platform generated.
generateRsaKeyPair(id) ==
  [publicKey |-> [type |-> "public", id |-> id, usages |-> PublicUsages],
   privateKey |-> [type |-> "private", id |-> id, usages |-> PrivateUsages]]

exportPublicKeyToPem(publicKey) ==
  [t |-> "pem", label |-> "PUBLIC KEY",
   body |-> arrayBufferToBase64([k |-> "spki", id |-> publicKey.id])]

importPublicKeyFromPem(publicKeyPem) ==
  LET binaryDer == base64ToArrayBuffer(publicKeyPem.body)
  IN IF binaryDer.ok /\ binaryDer.val.k = "spki"
     THEN Ok([type |-> "public", id |-> binaryDer.val.id, usages |-> {"encrypt", "wrapKey"}])
     ELSE Throw("Public key import failed")

\* aesKey and iv are the values the platform RNG returned for this call.
encryptMessageForRecipient(plaintext, recipientPublicKeyPem, aesKey, iv) ==
  LET recipientPublicKey == importPublicKeyFromPem(recipientPublicKeyPem)
  IN IF ~recipientPublicKey.ok THEN Throw("Message encryption failed")
     ELSE LET encodedPlaintext == TextEncoder_encode(plaintext)
              ciphertext == AesGcmEncrypt(aesKey, iv, encodedPlaintext)
              wrappedKey == RsaOaepWrap(aesKey, recipientPublicKey.val)
          IN IF ~wrappedKey.ok THEN Throw("Message encryption failed")
             ELSE Ok([t |-> "object",
                      version |-> 1,
                      alg |-> Str("AES-GCM+RSA-OAEP"),
                      iv |-> arrayBufferToBase64([k |-> "iv", n |-> iv]),
                      wrappedKey |-> arrayBufferToBase64(wrappedKey.val),
                      ciphertext |-> arrayBufferToBase64(ciphertext)])

\* Fault injection: a try block that does not check alg.
decryptMessagePayloadTry_algUnchecked(messagePayload, recipientPrivateKey) ==
  IF messagePayload.t # "object" THEN Throw("Invalid message payload: not an object")
  ELSE IF Falsy(messagePayload.iv) \/ Falsy(messagePayload.wrappedKey)
          \/ Falsy(messagePayload.ciphertext)
       THEN Throw("Invalid message payload: missing required fields")
  ELSE LET iv == base64ToArrayBuffer(messagePayload.iv)
           wrappedKey == base64ToArrayBuffer(messagePayload.wrappedKey)
           ciphertext == base64ToArrayBuffer(messagePayload.ciphertext)
       IN IF ~iv.ok \/ ~wrappedKey.ok \/ ~ciphertext.ok THEN Throw("InvalidCharacterError")
          ELSE LET aesKey == RsaOaepUnwrap(wrappedKey.val, recipientPrivateKey)
               IN IF ~aesKey.ok THEN aesKey
                  ELSE LET decrypted ==
                             IF iv.val.k = "iv"
                             THEN AesGcmDecrypt(aesKey.val, iv.val.n, ciphertext.val)
                             ELSE Throw("OperationError")
                       IN IF ~decrypted.ok THEN decrypted
                          ELSE Ok(TextDecoder_decode(decrypted.val))

\* The try block of decryptMessagePayload: Ok(plaintext) or the error thrown.
decryptMessagePayloadTry(messagePayload, recipientPrivateKey) ==
  IF messagePayload.t # "object" THEN Throw("Invalid message payload: not an object")
  ELSE IF messagePayload.alg # Str("AES-GCM+RSA-OAEP") THEN Throw("Unsupported algorithm")
  ELSE IF Falsy(messagePayload.iv) \/ Falsy(messagePayload.wrappedKey)
          \/ Falsy(messagePayload.ciphertext)
       THEN Throw("Invalid message payload: missing required fields")
  ELSE LET iv == base64ToArrayBuffer(messagePayload.iv)
           wrappedKey == base64ToArrayBuffer(messagePayload.wrappedKey)
           ciphertext == base64ToArrayBuffer(messagePayload.ciphertext)
       IN IF ~iv.ok \/ ~wrappedKey.ok \/ ~ciphertext.ok THEN Throw("InvalidCharacterError")
          ELSE LET aesKey == RsaOaepUnwrap(wrappedKey.val, recipientPrivateKey)
               IN IF ~aesKey.ok THEN aesKey
                  ELSE LET decrypted ==
                             IF iv.val.k = "iv"
                             THEN AesGcmDecrypt(aesKey.val, iv.val.n, ciphertext.val)
                             ELSE Throw("OperationError")
                       IN IF ~decrypted.ok THEN decrypted
                          ELSE Ok(TextDecoder_decode(decrypted.val))

\* Fault injection: a catch block that rethrows.
decryptMessagePayloadCatch_rethrows(r) ==
  IF r.ok THEN [kind |-> "returned", val |-> r.val] ELSE [kind |-> "rejected", err |-> r.err]

\* How the promise of decryptMessagePayload settles for the outcome r of its
\* try block: the catch block returns the fallback text.
decryptMessagePayloadCatch(r) ==
  IF r.ok THEN [kind |-> "returned", val |-> r.val]
  ELSE [kind |-> "returned", val |-> FallbackText]

\* Fault injection: a catch block that returns an empty text on failure.
decryptMessagePayload_emptyOnFailure(messagePayload, recipientPrivateKey) ==
  LET r == decryptMessagePayloadTry(messagePayload, recipientPrivateKey)
  IN IF r.ok THEN r.val ELSE <<>>

\* The catch block returns the fallback text instead of throwing.
decryptMessagePayload(messagePayload, recipientPrivateKey) ==
  LET r == decryptMessagePayloadTry(messagePayload, recipientPrivateKey)
  IN IF r.ok THEN r.val ELSE FallbackText

\* ------------------------------------------------------------------- state
Users == {"alice", "bob"}
NoUser == "null"         \* authUser / selectedUser when nobody is set
Passwords == {"CorrectHorse1", "WrongPassword2"}
Salts == {"salt1"}
StorageIvs == {"iv1"}    \* IVs the RNG returns for stored records and backups
Procs == {"c1", "c2"}    \* callers that may have a key manager call in flight
Texts == {<<"a">>}       \* message texts typed by users

VARIABLES
  deviceKeySlot,  \* IndexedDB 'device-keys'/'device-key': a JWK or Undefined
  keyStore,       \* IndexedDB 'encryption-keys': userId -> StoredKeyRecord or Undefined
  calls,          \* calls in flight, one per caller
  nextKeyPair,    \* number of RSA key pairs generated so far
  nextDeviceKey,  \* number of device keys generated so far
  backupFile,     \* the last string exportKeyBackup returned, kept by the user
  last,           \* the call that settled most recently, with its outcome
  cleared,        \* history: clearDeviceKey has run
  authStore,      \* useAuthStore: authUser, encryptionKeys, hasEncryptionKey, isEncryptionEnabled
  keyDirectory,   \* backend User.publicKeyPem: userId -> PEM or Undefined
  request,        \* the last HTTP request the client handed to the network
  messages,       \* useChatStore.messages
  selectedUser,   \* useChatStore.selectedUser
  sends,          \* sendMessage calls in flight, one per slot
  fetching,       \* getMessagesByUserId in flight: isMessagesLoading and its userId
  serverMessages, \* backend Message collection
  cipher,         \* one run of the hybrid cipher: inputs, payload, outcome
  classifier,     \* one call of needsDecryption: its argument and what it returned
  legacy          \* the passphrase store of keyStorage.js: records, what was saved, last call

kmVars ==
  <<deviceKeySlot, keyStore, calls, nextKeyPair, nextDeviceKey, backupFile, last, cleared>>
authVars == <<authStore, keyDirectory, request>>
chatVars == <<messages, selectedUser, sends, fetching, serverMessages>>
vars == <<kmVars, authVars, chatVars, cipher, classifier, legacy>>

\* What the key manager never touches.
outsideKeyManager == <<authVars, chatVars, cipher, classifier, legacy>>

Null == [t |-> "null"]
Bool(b) == [t |-> "boolean", b |-> b]

Pending == [kind |-> "pending"]
Returned(v) == [kind |-> "returned", val |-> v]
Rejected(msg) == [kind |-> "rejected", err |-> msg]

\* crypto.subtle.exportKey('jwk', key) and importKey('jwk', ..., usages)
DeviceKey(id) == [type |-> "secret", dev |-> id]
ExportDeviceJwk(deviceKey) == [t |-> "jwk", kty |-> "oct", dev |-> deviceKey.dev]
ExportPrivateJwk(privateKey) ==
  [t |-> "jwk", kty |-> "RSA", id |-> privateKey.id, key_ops |-> privateKey.usages]

\* A JWK whose key_ops does not contain every requested usage is refused.
ImportPrivateJwk(jwk, usages) ==
  IF jwk.t = "jwk" /\ jwk.kty = "RSA" /\ usages \subseteq jwk.key_ops
  THEN Ok([type |-> "private", id |-> jwk.id, usages |-> usages])
  ELSE Throw("DataError")

\* JSON.stringify + TextEncoder, and TextDecoder + JSON.parse, of a JWK
JsonBytes(v) == [k |-> "json", v |-> v]

encryptWithDeviceKey(data, deviceKey, iv) ==
  [encrypted |-> AesGcmEncrypt(deviceKey, iv, JsonBytes(data)), iv |-> iv]

decryptWithDeviceKey(encrypted, iv, deviceKey) ==
  LET decrypted == AesGcmDecrypt(deviceKey, iv, encrypted)
  IN IF ~decrypted.ok THEN decrypted
     ELSE IF decrypted.val.k = "json" THEN Ok(decrypted.val.v)
     ELSE Throw("SyntaxError")

StoredKeyRecord(encrypted, iv, publicKeyPem, userId, imported) ==
  [t |-> "record", encryptedPrivateKey |-> encrypted, iv |-> iv,
   publicKeyPem |-> publicKeyPem, userId |-> userId, importedAt |-> imported]

Keys(publicKey, privateKey, publicKeyPem) ==
  [t |-> "keys", publicKey |-> publicKey, privateKey |-> privateKey,
   publicKeyPem |-> publicKeyPem]

\* ------------------------------------------------------------ calls in flight
\* op is the function running, pc the await it stands at, via the place its
\* caller goes on from when it settles ("idle": it was called from outside).
IdleCall ==
  [op |-> "none", pc |-> "idle", via |-> "idle", ret |-> "none", user |-> "none",
   pw |-> "none", kp |-> 0, gen |-> 0, dk |-> 0, rec |-> Undefined, jwk |-> Undefined,
   input |-> Undefined, result |-> Pending]

Start(op, pc, user, via) ==
  [IdleCall EXCEPT !.op = op, !.pc = pc, !.user = user, !.via = via]

\* Call p goes on as c, still in flight.
Step(p, c) == calls' = [calls EXCEPT ![p] = c] /\ UNCHANGED last

\* Call p, in state c, settles with the given outcome: a call from outside
\* frees its slot, a call made by an auth store action hands the outcome to it.
Settle(p, c, outcome) ==
  IF c.via = "idle"
  THEN /\ calls' = [calls EXCEPT ![p] = IdleCall]
       /\ last' = [c EXCEPT !.pc = "done", !.result = outcome]
  ELSE /\ calls' = [calls EXCEPT ![p] = [c EXCEPT !.pc = c.via, !.result = outcome]]
       /\ UNCHANGED last

\* ------------------------------------------ Device Key Store (keyManager.js)
\* getDeviceKey, up to the await of db.get: an existing key is imported and
\* returned; otherwise a new key is generated, still to be stored.
getDeviceKey_get(p) ==
  /\ calls[p].pc = "getDeviceKey"
  /\ IF deviceKeySlot # Undefined
     THEN /\ Step(p, [calls[p] EXCEPT !.dk = deviceKeySlot.dev, !.pc = calls[p].ret])
          /\ UNCHANGED nextDeviceKey
     ELSE /\ nextDeviceKey < MaxDeviceKeys
          /\ nextDeviceKey' = nextDeviceKey + 1
          /\ Step(p, [calls[p] EXCEPT !.gen = nextDeviceKey + 1, !.pc = "getDeviceKey_put"])
  /\ UNCHANGED <<deviceKeySlot, keyStore, nextKeyPair, backupFile, cleared, outsideKeyManager>>

\* getDeviceKey, from exportKey to the return: db.put of the generated key.
getDeviceKey_put(p) ==
  /\ calls[p].pc = "getDeviceKey_put"
  /\ deviceKeySlot' = ExportDeviceJwk(DeviceKey(calls[p].gen))
  /\ Step(p, [calls[p] EXCEPT !.dk = calls[p].gen, !.pc = calls[p].ret])
  /\ UNCHANGED <<keyStore, nextKeyPair, nextDeviceKey, backupFile, cleared, outsideKeyManager>>

\* ----------------------------------------------- Key Manager (keyManager.js)
\* Every function takes the caller p, the place `from` the caller stands at
\* ("idle" for a call from outside) and the place `via` it goes on from.

\* initializeKeys, steps 1-3: generate the pair, export both keys.
initializeKeys(p, userId, from, via) ==
  /\ calls[p].pc = from
  /\ nextKeyPair < MaxKeyPairs
  /\ nextKeyPair' = nextKeyPair + 1
  /\ Step(p, [Start("initializeKeys", "getDeviceKey", userId, via) EXCEPT
                !.ret = "initializeKeys_put", !.kp = nextKeyPair + 1])
  /\ UNCHANGED <<deviceKeySlot, keyStore, nextDeviceKey, backupFile, cleared, outsideKeyManager>>

\* initializeKeys rejects: the db.put (or a step before it) throws, for a
\* full or unavailable store, and nothing has been written.
initializeKeys_fail(p) ==
  /\ calls[p].pc = "initializeKeys_put"
  /\ Settle(p, calls[p], Rejected("QuotaExceededError"))
  /\ UNCHANGED <<deviceKeySlot, keyStore, nextKeyPair, nextDeviceKey, backupFile, cleared,
                 outsideKeyManager>>

\* Fault injection: an initializeKeys that returns the key pair without
\* having stored the record.
initializeKeys_put_unpersisted(p) ==
  /\ calls[p].pc = "initializeKeys_put"
  /\ LET kp == generateRsaKeyPair(calls[p].kp)
         publicKeyPem == exportPublicKeyToPem(kp.publicKey)
     IN Settle(p, calls[p], Returned(Keys(kp.publicKey, kp.privateKey, publicKeyPem)))
  /\ UNCHANGED <<deviceKeySlot, keyStore, nextKeyPair, nextDeviceKey, backupFile, cleared,
                 outsideKeyManager>>

\* Fault injection: an initializeKeys that leaves an existing record alone
\* and returns the new pair.
initializeKeys_put_keepsExisting(p) ==
  /\ calls[p].pc = "initializeKeys_put"
  /\ \E iv \in StorageIvs :
       LET kp == generateRsaKeyPair(calls[p].kp)
           publicKeyPem == exportPublicKeyToPem(kp.publicKey)
           privateKeyJwk == ExportPrivateJwk(kp.privateKey)
           enc == encryptWithDeviceKey(privateKeyJwk, DeviceKey(calls[p].dk), iv)
       IN /\ keyStore' = IF keyStore[calls[p].user] # Undefined THEN keyStore
                         ELSE [keyStore EXCEPT ![calls[p].user] =
                                 StoredKeyRecord(enc.encrypted, enc.iv, publicKeyPem,
                                                 calls[p].user, FALSE)]
          /\ Settle(p, calls[p], Returned(Keys(kp.publicKey, kp.privateKey, publicKeyPem)))
  /\ UNCHANGED <<deviceKeySlot, nextKeyPair, nextDeviceKey, backupFile, cleared, outsideKeyManager>>

\* initializeKeys, steps 5-6 and the return.
initializeKeys_put(p) ==
  /\ calls[p].pc = "initializeKeys_put"
  /\ \E iv \in StorageIvs :
       LET kp == generateRsaKeyPair(calls[p].kp)
           publicKeyPem == exportPublicKeyToPem(kp.publicKey)
           privateKeyJwk == ExportPrivateJwk(kp.privateKey)
           enc == encryptWithDeviceKey(privateKeyJwk, DeviceKey(calls[p].dk), iv)
       IN /\ keyStore' = [keyStore EXCEPT ![calls[p].user] =
                StoredKeyRecord(enc.encrypted, enc.iv, publicKeyPem, calls[p].user, FALSE)]
          /\ Settle(p, calls[p], Returned(Keys(kp.publicKey, kp.privateKey, publicKeyPem)))
  /\ UNCHANGED <<deviceKeySlot, nextKeyPair, nextDeviceKey, backupFile, cleared, outsideKeyManager>>

\* restoreKeys up to the device key: db.get of the record.
restoreKeys(p, userId, from, via) ==
  /\ calls[p].pc = from
  /\ LET keyData == keyStore[userId]
     IN IF keyData = Undefined
        THEN Settle(p, Start("restoreKeys", "idle", userId, via), Returned(Null))
        ELSE Step(p, [Start("restoreKeys", "getDeviceKey", userId, via) EXCEPT
                        !.ret = "restoreKeys_finish", !.rec = keyData])
  /\ UNCHANGED <<deviceKeySlot, keyStore, nextKeyPair, nextDeviceKey, backupFile, cleared,
                 outsideKeyManager>>

\* The rest of restoreKeys' try block: decrypt the JWK, import the private
\* key for ['decrypt'], import the public key from the stored PEM.
restoreKeysTry(keyData, deviceKey) ==
  LET privateKeyJwk == decryptWithDeviceKey(keyData.encryptedPrivateKey, keyData.iv, deviceKey)
  IN IF ~privateKeyJwk.ok THEN privateKeyJwk
     ELSE LET privateKey == ImportPrivateJwk(privateKeyJwk.val, {"decrypt"})
              publicKey == importPublicKeyFromPem(keyData.publicKeyPem)
          IN IF ~privateKey.ok THEN privateKey
             ELSE IF ~publicKey.ok THEN publicKey
             ELSE Ok(Keys(publicKey.val, privateKey.val, keyData.publicKeyPem))

\* Fault injection: a catch block that rethrows.
restoreKeysCatch_rethrows(r) == IF r.ok THEN Returned(r.val) ELSE Rejected(r.err)

\* restoreKeys' catch block turns every failure into null.
restoreKeysCatch(r) == IF r.ok THEN Returned(r.val) ELSE Returned(Null)

\* Fault injection: a restoreKeys that removes the record it has read.
restoreKeys_finish_consumes(p) ==
  /\ calls[p].pc = "restoreKeys_finish"
  /\ Settle(p, calls[p],
            restoreKeysCatch(restoreKeysTry(calls[p].rec, DeviceKey(calls[p].dk))))
  /\ keyStore' = [keyStore EXCEPT ![calls[p].user] = Undefined]
  /\ UNCHANGED <<deviceKeySlot, nextKeyPair, nextDeviceKey, backupFile, cleared,
                 outsideKeyManager>>

\* restoreKeys after the device key: decrypt, import, return the key pair.
restoreKeys_finish(p) ==
  /\ calls[p].pc = "restoreKeys_finish"
  /\ Settle(p, calls[p],
            restoreKeysCatch(restoreKeysTry(calls[p].rec, DeviceKey(calls[p].dk))))
  /\ UNCHANGED <<deviceKeySlot, keyStore, nextKeyPair, nextDeviceKey, backupFile, cleared,
                 outsideKeyManager>>

hasKeys(p, userId) ==
  /\ calls[p].pc = "idle"
  /\ Settle(p, Start("hasKeys", "idle", userId, "idle"),
            Returned(Bool(keyStore[userId] # Undefined)))
  /\ UNCHANGED <<deviceKeySlot, keyStore, nextKeyPair, nextDeviceKey, backupFile, cleared,
                 outsideKeyManager>>

\* Fault injection: a deleteKeys that also deletes the device key.
deleteKeys_andDeviceKey(p, userId, from, via) ==
  /\ calls[p].pc = from
  /\ keyStore' = [keyStore EXCEPT ![userId] = Undefined]
  /\ deviceKeySlot' = Undefined
  /\ Settle(p, Start("deleteKeys", "idle", userId, via), Returned(Undefined))
  /\ UNCHANGED <<nextKeyPair, nextDeviceKey, backupFile, cleared, outsideKeyManager>>

\* Fault injection: db.clear() in place of db.delete(userId).
deleteKeys_clearsStore(p, userId, from, via) ==
  /\ calls[p].pc = from
  /\ keyStore' = [u \in Users |-> Undefined]
  /\ Settle(p, Start("deleteKeys", "idle", userId, via), Returned(Undefined))
  /\ UNCHANGED <<deviceKeySlot, nextKeyPair, nextDeviceKey, backupFile, cleared,
                 outsideKeyManager>>

\* deleteKeys: db.delete of the user's record; failures are only logged.
deleteKeys(p, userId, from, via) ==
  /\ calls[p].pc = from
  /\ keyStore' = [keyStore EXCEPT ![userId] = Undefined]
  /\ Settle(p, Start("deleteKeys", "idle", userId, via), Returned(Undefined))
  /\ UNCHANGED <<deviceKeySlot, nextKeyPair, nextDeviceKey, backupFile, cleared,
                 outsideKeyManager>>

clearDeviceKey(p) ==
  /\ calls[p].pc = "idle"
  /\ deviceKeySlot' = Undefined
  /\ cleared' = TRUE
  /\ Settle(p, Start("clearDeviceKey", "idle", "none", "idle"), Returned(Undefined))
  /\ UNCHANGED <<keyStore, nextKeyPair, nextDeviceKey, backupFile, outsideKeyManager>>

\* getEncryptionStatus: what the two stores hold for the user, read only.
getEncryptionStatus(p, userId) ==
  /\ calls[p].pc = "idle"
  /\ LET keyData == keyStore[userId]
         deviceKeyData == deviceKeySlot
     IN Settle(p, Start("getEncryptionStatus", "idle", userId, "idle"),
               Returned([hasUserKeys |-> keyData # Undefined,
                         hasDeviceKey |-> deviceKeyData # Undefined,
                         userId |-> userId,
                         keyImportedAt |-> keyData # Undefined /\ keyData.importedAt]))
  /\ UNCHANGED <<deviceKeySlot, keyStore, nextKeyPair, nextDeviceKey, backupFile, cleared,
                 outsideKeyManager>>

\* crypto.subtle.importKey('raw', password, 'PBKDF2') + deriveKey with
\* PBKDF2-SHA256, 100000 iterations: the key is a function of password and salt.
Pbkdf2Key(backupPassword, salt) == [type |-> "secret", pw |-> backupPassword, salt |-> salt]

JSON_stringify(v) == [t |-> "string", json |-> v]
JSON_parse(s) ==
  IF s.t = "string" /\ "json" \in DOMAIN s THEN Ok(s.json) ELSE Throw("SyntaxError")

\* Fault injection: an export that returns null when there is no record.
exportKeyBackup_nullWhenAbsent(p, userId, backupPassword, from, via) ==
  /\ calls[p].pc = from
  /\ LET keyData == keyStore[userId]
         c == [Start("exportKeyBackup", "getDeviceKey", userId, via) EXCEPT
                 !.pw = backupPassword, !.ret = "exportKeyBackup_finish", !.rec = keyData]
     IN IF keyData = Undefined
        THEN Settle(p, c, Returned(Null))
        ELSE Step(p, c)
  /\ UNCHANGED <<deviceKeySlot, keyStore, nextKeyPair, nextDeviceKey, backupFile, cleared,
                 outsideKeyManager>>

\* exportKeyBackup up to the device key: db.get of the record.
exportKeyBackup(p, userId, backupPassword, from, via) ==
  /\ calls[p].pc = from
  /\ LET keyData == keyStore[userId]
         c == [Start("exportKeyBackup", "getDeviceKey", userId, via) EXCEPT
                 !.pw = backupPassword, !.ret = "exportKeyBackup_finish", !.rec = keyData]
     IN IF keyData = Undefined
        THEN Settle(p, c, Rejected("No keys found to export"))
        ELSE Step(p, c)
  /\ UNCHANGED <<deviceKeySlot, keyStore, nextKeyPair, nextDeviceKey, backupFile, cleared,
                 outsideKeyManager>>

\* Fault injection: a backup that carries the stored, device-encrypted
\* private key instead of re-encrypting it under the password.
BackupRecord_deviceEncrypted(userId, keyData, privateKeyJwk, backupPassword, salt, backupIv) ==
  [version |-> 1, userId |-> userId, publicKeyPem |-> keyData.publicKeyPem,
   encryptedPrivateKey |-> keyData.encryptedPrivateKey, salt |-> salt, iv |-> backupIv]

\* The backup object exportKeyBackup builds from the recovered JWK.
BackupRecord(userId, keyData, privateKeyJwk, backupPassword, salt, backupIv) ==
  [version |-> 1, userId |-> userId, publicKeyPem |-> keyData.publicKeyPem,
   encryptedPrivateKey |->
     AesGcmEncrypt(Pbkdf2Key(backupPassword, salt), backupIv, JsonBytes(privateKeyJwk)),
   salt |-> salt, iv |-> backupIv]

\* exportKeyBackup after the device key: decrypt, re-encrypt under the
\* password, return the JSON string. A failed decryption rejects the call.
exportKeyBackup_finish(p) ==
  /\ calls[p].pc = "exportKeyBackup_finish"
  /\ LET c == calls[p]
         privateKeyJwk ==
           decryptWithDeviceKey(c.rec.encryptedPrivateKey, c.rec.iv, DeviceKey(c.dk))
     IN IF ~privateKeyJwk.ok
        THEN /\ Settle(p, c, Rejected(privateKeyJwk.err))
             /\ UNCHANGED backupFile
        ELSE \E salt \in Salts, backupIv \in StorageIvs :
               LET backup == JSON_stringify(
                     BackupRecord(c.user, c.rec, privateKeyJwk.val, c.pw, salt, backupIv))
               IN /\ Settle(p, c, Returned(backup))
                  /\ backupFile' = backup
  /\ UNCHANGED <<deviceKeySlot, keyStore, nextKeyPair, nextDeviceKey, cleared, outsideKeyManager>>

\* Fault injection: a try block that does not check the version.
importKeyBackupTry_anyVersion(backupJson, backupPassword) ==
  LET backup == JSON_parse(backupJson)
  IN IF ~backup.ok THEN backup
     ELSE LET backupKey == Pbkdf2Key(backupPassword, backup.val.salt)
              decrypted == AesGcmDecrypt(backupKey, backup.val.iv,
                                         backup.val.encryptedPrivateKey)
          IN IF ~decrypted.ok THEN decrypted
             ELSE IF decrypted.val.k = "json" THEN Ok(decrypted.val.v)
             ELSE Throw("SyntaxError")

\* Fault injection: a decryption that does not verify the authentication
\* tag, so that any password yields the JWK.
importKeyBackupTry_unauthenticated(backupJson, backupPassword) ==
  LET backup == JSON_parse(backupJson)
  IN IF ~backup.ok THEN backup
     ELSE IF backup.val.version # 1 THEN Throw("Unsupported backup version")
     ELSE Ok(backup.val.encryptedPrivateKey.data.v)

\* importKeyBackup's try block up to the recovered JWK: parse, check the
\* version, derive the key from password and stored salt, decrypt.
importKeyBackupTry(backupJson, backupPassword) ==
  LET backup == JSON_parse(backupJson)
  IN IF ~backup.ok THEN backup
     ELSE IF backup.val.version # 1 THEN Throw("Unsupported backup version")
     ELSE LET backupKey == Pbkdf2Key(backupPassword, backup.val.salt)
              decrypted == AesGcmDecrypt(backupKey, backup.val.iv,
                                         backup.val.encryptedPrivateKey)
          IN IF ~decrypted.ok THEN decrypted
             ELSE IF decrypted.val.k = "json" THEN Ok(decrypted.val.v)
             ELSE Throw("SyntaxError")

\* Fault injection: a catch block that rethrows.
importKeyBackupCatch_rethrows(err) == Rejected(err)

\* Fault injection: a catch block that hands the error message to the caller.
importKeyBackupCatch_reportsCause(err) == Returned(Str(err))

\* importKeyBackup's catch block returns false instead of rejecting.
importKeyBackupCatch(err) == Returned(Bool(FALSE))

importKeyBackup(p, backupJson, backupPassword, userId, from, via) ==
  /\ calls[p].pc = from
  /\ LET privateKeyJwk == importKeyBackupTry(backupJson, backupPassword)
         c == [Start("importKeyBackup", "getDeviceKey", userId, via) EXCEPT
                 !.pw = backupPassword, !.input = backupJson,
                 !.ret = "importKeyBackup_put"]
     IN IF ~privateKeyJwk.ok
        THEN Settle(p, c, importKeyBackupCatch(privateKeyJwk.err))
        ELSE Step(p, [c EXCEPT !.jwk = privateKeyJwk.val])
  /\ UNCHANGED <<deviceKeySlot, keyStore, nextKeyPair, nextDeviceKey, backupFile, cleared,
                 outsideKeyManager>>

\* importKeyBackup after the device key: re-encrypt, db.put, return true.
importKeyBackup_put(p) ==
  /\ calls[p].pc = "importKeyBackup_put"
  /\ \E deviceIv \in StorageIvs :
       LET c == calls[p]
           backup == JSON_parse(c.input).val
           enc == encryptWithDeviceKey(c.jwk, DeviceKey(c.dk), deviceIv)
       IN /\ keyStore' = [keyStore EXCEPT ![c.user] =
                StoredKeyRecord(enc.encrypted, enc.iv, backup.publicKeyPem, c.user, TRUE)]
          /\ Settle(p, c, Returned(Bool(TRUE)))
  /\ UNCHANGED <<deviceKeySlot, nextKeyPair, nextDeviceKey, backupFile, cleared,
                 outsideKeyManager>>

\* ------------------------------------------- Key Directory (backend, /keys)
\* validatePublicKeyPem: a string of the PUBLIC KEY PEM shape with a
\* non-empty body; the length limits (200..2000) hold for every PEM of a
\* 2048-bit key and are not modelled.
validatePublicKeyPem(publicKeyPem) ==
  /\ publicKeyPem.t = "pem"
  /\ publicKeyPem.label = "PUBLIC KEY"
  /\ publicKeyPem.body # EmptyString

\* registerPublicKey: the HTTP status for a request made as reqUser.
registerPublicKey(reqUser, body) ==
  IF body.userId = NoUser \/ body.publicKeyPem = Undefined THEN 400
  ELSE IF ~validatePublicKeyPem(body.publicKeyPem) THEN 400
  ELSE IF reqUser # body.userId THEN 403
  ELSE 200

\* ------------------------------------------------ Auth Store (useAuthStore.js)
\* An auth store action returns: its caller's slot is free again.
AuthReturn(p, op, value) ==
  /\ calls' = [calls EXCEPT ![p] = IdleCall]
  /\ last' = [calls[p] EXCEPT !.op = op, !.pc = "done", !.via = "idle",
                               !.result = Returned(value)]

\* set({encryptionKeys: keys, hasEncryptionKey: true, isEncryptionEnabled: true})
SetKeys(keys) ==
  [authStore EXCEPT !.encryptionKeys = keys, !.hasEncryptionKey = TRUE,
                    !.isEncryptionEnabled = TRUE]

restoreEncryptionKeys(p) ==
  IF authStore.authUser = NoUser
  THEN /\ calls[p].pc = "idle"
       /\ AuthReturn(p, "restoreEncryptionKeys", Bool(FALSE))
       /\ UNCHANGED <<deviceKeySlot, keyStore, nextKeyPair, nextDeviceKey, backupFile,
                      cleared, outsideKeyManager>>
  ELSE restoreKeys(p, authStore.authUser, "idle", "restoreEncryptionKeys_set")

restoreEncryptionKeys_set(p) ==
  /\ calls[p].pc = "restoreEncryptionKeys_set"
  /\ LET keys == calls[p].result.val
     IN IF keys # Null
        THEN /\ authStore' = SetKeys(keys)
             /\ AuthReturn(p, "restoreEncryptionKeys", Bool(TRUE))
        ELSE /\ AuthReturn(p, "restoreEncryptionKeys", Bool(FALSE))
             /\ UNCHANGED authStore
  /\ UNCHANGED <<deviceKeySlot, keyStore, nextKeyPair, nextDeviceKey, backupFile, cleared,
                 keyDirectory, request, chatVars, cipher, classifier, legacy>>

initializeEncryptionKeys(p) ==
  IF authStore.authUser = NoUser
  THEN /\ calls[p].pc = "idle"
       /\ AuthReturn(p, "initializeEncryptionKeys", Bool(FALSE))
       /\ UNCHANGED <<deviceKeySlot, keyStore, nextKeyPair, nextDeviceKey, backupFile,
                      cleared, outsideKeyManager>>
  ELSE initializeKeys(p, authStore.authUser, "idle", "initializeEncryptionKeys_register")

\* After initializeKeys: POST /keys/register, then set(...). The request may
\* not reach the server, and the answer may not reach the client; either
\* way the catch block returns false without touching the store.
initializeEncryptionKeys_register(p) ==
  /\ calls[p].pc = "initializeEncryptionKeys_register"
  /\ calls[p].result.kind = "returned"
  /\ LET keys == calls[p].result.val
         body == [userId |-> calls[p].user, publicKeyPem |-> keys.publicKeyPem,
                  keyId |-> Str("v1")]
     IN /\ request' = [url |-> "/keys/register", body |-> body]
        /\ \E delivered \in BOOLEAN, answered \in BOOLEAN :
             LET status == registerPublicKey(authStore.authUser, body)
                 registered == delivered /\ status = 200
             IN /\ keyDirectory' =
                     IF registered
                     THEN [keyDirectory EXCEPT ![body.userId] = body.publicKeyPem]
                     ELSE keyDirectory
                /\ IF registered /\ answered
                   THEN /\ authStore' = SetKeys(keys)
                        /\ AuthReturn(p, "initializeEncryptionKeys", Bool(TRUE))
                   ELSE /\ AuthReturn(p, "initializeEncryptionKeys", Bool(FALSE))
                        /\ UNCHANGED authStore
  /\ UNCHANGED <<deviceKeySlot, keyStore, nextKeyPair, nextDeviceKey, backupFile, cleared,
                 chatVars, cipher, classifier, legacy>>

\* initializeKeys rejected: the catch block returns false, no request made.
initializeEncryptionKeys_catch(p) ==
  /\ calls[p].pc = "initializeEncryptionKeys_register"
  /\ calls[p].result.kind = "rejected"
  /\ AuthReturn(p, "initializeEncryptionKeys", Bool(FALSE))
  /\ UNCHANGED <<deviceKeySlot, keyStore, nextKeyPair, nextDeviceKey, backupFile, cleared,
                 outsideKeyManager>>

toggleEncryption(p) ==
  /\ calls[p].pc = "idle"
  /\ authStore' = [authStore EXCEPT !.isEncryptionEnabled = ~authStore.isEncryptionEnabled]
  /\ UNCHANGED <<kmVars, keyDirectory, request, chatVars, cipher, classifier, legacy>>

exportEncryptionBackup(p, backupPassword) ==
  IF authStore.authUser = NoUser
  THEN /\ calls[p].pc = "idle"
       /\ AuthReturn(p, "exportEncryptionBackup", Null)
       /\ UNCHANGED <<deviceKeySlot, keyStore, nextKeyPair, nextDeviceKey, backupFile,
                      cleared, outsideKeyManager>>
  ELSE exportKeyBackup(p, authStore.authUser, backupPassword, "idle",
                       "exportEncryptionBackup_return")

exportEncryptionBackup_return(p) ==
  /\ calls[p].pc = "exportEncryptionBackup_return"
  /\ AuthReturn(p, "exportEncryptionBackup",
                IF calls[p].result.kind = "returned" THEN calls[p].result.val ELSE Null)
  /\ UNCHANGED <<deviceKeySlot, keyStore, nextKeyPair, nextDeviceKey, backupFile, cleared,
                 outsideKeyManager>>

importEncryptionBackup(p, backupJson, backupPassword) ==
  IF authStore.authUser = NoUser
  THEN /\ calls[p].pc = "idle"
       /\ AuthReturn(p, "importEncryptionBackup", Bool(FALSE))
       /\ UNCHANGED <<deviceKeySlot, keyStore, nextKeyPair, nextDeviceKey, backupFile,
                      cleared, outsideKeyManager>>
  ELSE importKeyBackup(p, backupJson, backupPassword, authStore.authUser, "idle",
                       "importEncryptionBackup_restore")

\* After importKeyBackup: on success, get().restoreEncryptionKeys().
importEncryptionBackup_restore(p) ==
  IF calls[p].result = Returned(Bool(TRUE)) /\ authStore.authUser # NoUser
  THEN restoreKeys(p, authStore.authUser, "importEncryptionBackup_restore",
                   "importEncryptionBackup_set")
  ELSE /\ calls[p].pc = "importEncryptionBackup_restore"
       /\ AuthReturn(p, "importEncryptionBackup", Bool(calls[p].result = Returned(Bool(TRUE))))
       /\ UNCHANGED <<deviceKeySlot, keyStore, nextKeyPair, nextDeviceKey, backupFile,
                      cleared, outsideKeyManager>>

\* The set(...) of the restoreEncryptionKeys it awaited, then `return true`.
importEncryptionBackup_set(p) ==
  /\ calls[p].pc = "importEncryptionBackup_set"
  /\ LET keys == calls[p].result.val
     IN authStore' = IF keys # Null THEN SetKeys(keys) ELSE authStore
  /\ AuthReturn(p, "importEncryptionBackup", Bool(TRUE))
  /\ UNCHANGED <<deviceKeySlot, keyStore, nextKeyPair, nextDeviceKey, backupFile, cleared,
                 keyDirectory, request, chatVars, cipher, classifier, legacy>>

\* login: POST /auth/login, set({authUser}) when it succeeds. The login page
\* is routed only while nobody is signed in.
login(p, userId) ==
  /\ calls[p].pc = "idle"
  /\ authStore.authUser = NoUser
  /\ request' = [url |-> "/auth/login", body |-> [email |-> userId]]
  /\ \E ok \in BOOLEAN :
       authStore' = IF ok THEN [authStore EXCEPT !.authUser = userId] ELSE authStore
  /\ UNCHANGED <<kmVars, keyDirectory, chatVars, cipher, classifier, legacy>>

\* logout up to the request: deleteKeys(authUser._id) for a signed-in user.
logout(p) ==
  IF authStore.authUser # NoUser
  THEN deleteKeys(p, authStore.authUser, "idle", "logout_post")
  ELSE /\ calls[p].pc = "idle"
       /\ Step(p, [IdleCall EXCEPT !.op = "logout", !.pc = "logout_post"])
       /\ UNCHANGED <<deviceKeySlot, keyStore, nextKeyPair, nextDeviceKey, backupFile,
                      cleared, outsideKeyManager>>

\* POST /auth/logout; the store is reset only when the request succeeds.
logout_post(p) ==
  /\ calls[p].pc = "logout_post"
  /\ request' = [url |-> "/auth/logout", body |-> Undefined]
  /\ \E ok \in BOOLEAN :
       authStore' =
         IF ok THEN [authUser |-> NoUser, encryptionKeys |-> Null,
                     hasEncryptionKey |-> FALSE, isEncryptionEnabled |-> FALSE]
         ELSE authStore
  /\ AuthReturn(p, "logout", Undefined)
  /\ UNCHANGED <<deviceKeySlot, keyStore, nextKeyPair, nextDeviceKey, backupFile, cleared,
                 keyDirectory, chatVars, cipher, classifier, legacy>>

\* -------------------------------------------- Transport (backend, /messages)
\* A Message document; the schema defaults are messagePayload: null and
\* isEncrypted: false. Images are left out; a text that is absent is <<>>.
Message(id, senderId, receiverId, text, messagePayload, isEncrypted) ==
  [_id |-> id, senderId |-> senderId, receiverId |-> receiverId, text |-> text,
   messagePayload |-> messagePayload, isEncrypted |-> isEncrypted,
   isOptimistic |-> FALSE, decryptionFailed |-> FALSE]

\* The request body fields a client can send.
MessageData(text, messagePayload, isEncrypted) ==
  [text |-> text, messagePayload |-> messagePayload, isEncrypted |-> isEncrypted]

\* Backend sendMessage: only text (and image) are read from the body.
backend_sendMessage(senderId, receiverId, body, id) ==
  LET text == body.text
  IN IF text = <<>> THEN [status |-> 400, data |-> Undefined]
     ELSE IF senderId = receiverId THEN [status |-> 400, data |-> Undefined]
     ELSE IF receiverId \notin Users THEN [status |-> 404, data |-> Undefined]
     ELSE [status |-> 201, data |-> Message(id, senderId, receiverId, text, Null, FALSE)]

\* Backend getMessagesByUserId: the conversation between the two users.
backend_getMessagesByUserId(myId, userToChatId) ==
  LET between(m) == \/ m.senderId = myId /\ m.receiverId = userToChatId
                    \/ m.senderId = userToChatId /\ m.receiverId = myId
  IN SelectSeq(serverMessages, between)

\* ------------------------------------------------ Chat Store (useChatStore.js)
SendSlots == {"s1"}

IdleSend ==
  [pc |-> "idle", messages |-> <<>>, selectedUser |-> NoUser, authUser |-> NoUser,
   finalMessageData |-> Undefined]

\* decryptMessages returns the array it was given.
decryptMessages(msgs) == msgs

setSelectedUser(user) ==
  /\ selectedUser' = user
  /\ UNCHANGED <<kmVars, authVars, messages, sends, fetching, serverMessages, cipher, classifier, legacy>>

NotFetching == [isMessagesLoading |-> FALSE, userId |-> NoUser]

\* getMessagesByUserId up to the await: GET /messages/:id is sent.
getMessagesByUserId(userId) ==
  /\ ~fetching.isMessagesLoading
  /\ authStore.authUser # NoUser
  /\ fetching' = [isMessagesLoading |-> TRUE, userId |-> userId]
  /\ request' = [url |-> "/messages/:id", body |-> Undefined]
  /\ UNCHANGED <<kmVars, authStore, keyDirectory, messages, selectedUser, sends,
                 serverMessages, cipher, classifier, legacy>>

\* The answer (or the failure) arrives: decryptMessages, set({messages}).
getMessagesByUserId_response ==
  /\ fetching.isMessagesLoading
  /\ \E ok \in BOOLEAN :
       messages' =
         IF ok /\ authStore.authUser # NoUser
         THEN decryptMessages(
                backend_getMessagesByUserId(authStore.authUser, fetching.userId))
         ELSE messages
  /\ fetching' = NotFetching
  /\ UNCHANGED <<kmVars, authVars, selectedUser, sends, serverMessages, cipher, classifier, legacy>>

\* sendMessage up to the await: the optimistic message is shown and the
\* message data is posted as it was given.
sendMessage(s, messageData) ==
  /\ sends[s].pc = "idle"
  /\ authStore.authUser # NoUser
  /\ selectedUser # NoUser
  /\ Len(serverMessages) < MaxMessages
  /\ LET finalMessageData == messageData
         optimisticMessage ==
           [Message(0, authStore.authUser, selectedUser, messageData.text, Null, FALSE)
              EXCEPT !.isOptimistic = TRUE]
     IN /\ messages' = Append(messages, optimisticMessage)
        /\ request' = [url |-> "/messages/send/:id", body |-> finalMessageData]
        /\ sends' = [sends EXCEPT ![s] =
                      [pc |-> "posted", messages |-> messages, selectedUser |-> selectedUser,
                       authUser |-> authStore.authUser,
                       finalMessageData |-> finalMessageData]]
  /\ UNCHANGED <<kmVars, authStore, keyDirectory, selectedUser, fetching, serverMessages, cipher, classifier, legacy>>

\* The request is served (or fails) and sendMessage goes on after the await:
\* the list captured at the start, plus the server's message on success.
sendMessage_response(s) ==
  /\ sends[s].pc = "posted"
  /\ \E delivered \in BOOLEAN, answered \in BOOLEAN :
       LET c == sends[s]
           res == backend_sendMessage(c.authUser, c.selectedUser, c.finalMessageData,
                                      Len(serverMessages) + 1)
           saved == delivered /\ res.status = 201
           finalMessage ==
             IF res.data.isEncrypted /\ res.data.messagePayload # Null
             THEN decryptMessages(<<res.data>>)[1]
             ELSE res.data
       IN /\ serverMessages' =
               IF saved THEN Append(serverMessages, res.data) ELSE serverMessages
          /\ messages' =
               IF saved /\ answered THEN c.messages \o <<finalMessage>> ELSE c.messages
  /\ sends' = [sends EXCEPT ![s] = IdleSend]
  /\ UNCHANGED <<kmVars, authVars, selectedUser, fetching, cipher, classifier, legacy>>

\* A message from another client to the user signed in here reaches the
\* backend store and, when its sender is the selected user, the 'newMessage'
\* handler of subscribeToMessages. The other client may be one that
\* encrypts: its message carries a payload made for the receiver's
\* registered public key (possibly damaged on the way) and isEncrypted.
PeerMessage(senderId, receiverId, text, kind, aesKey, iv) ==
  /\ senderId # receiverId
  /\ receiverId = authStore.authUser
  /\ Len(serverMessages) < MaxMessages
  /\ kind \in {"plain", "encrypted", "damaged"}
  /\ kind # "plain" => keyDirectory[receiverId] # Undefined
  /\ LET id == Len(serverMessages) + 1
         payload == encryptMessageForRecipient(text, keyDirectory[receiverId], aesKey, iv).val
         newMessage ==
           IF kind = "plain" THEN Message(id, senderId, receiverId, text, Null, FALSE)
           ELSE IF kind = "encrypted" THEN Message(id, senderId, receiverId, <<>>, payload, TRUE)
           ELSE Message(id, senderId, receiverId, <<>>,
                        [payload EXCEPT !.ciphertext.form = "invalid"], TRUE)
         finalMessage ==
           IF newMessage.isEncrypted /\ newMessage.messagePayload # Null
           THEN decryptMessages(<<newMessage>>)[1]
           ELSE newMessage
     IN /\ serverMessages' = Append(serverMessages, newMessage)
        /\ messages' =
             IF senderId = selectedUser
             THEN Append(messages, finalMessage)
             ELSE messages
  /\ UNCHANGED <<kmVars, authVars, selectedUser, sends, fetching, cipher, classifier, legacy>>

\* ------------------------------------------------- one run of the hybrid cipher
\* The inputs are drawn at the start: the plaintext, the generated key pair
\* the message is for, the key pair whose private key reads it, and what
\* the RNG returns for the one-time key and the iv.
CipherInputs ==
  [pc : {"start"}, plaintext : Plaintexts, recipient : KeyIds, reader : KeyIds,
   aesKey : AesKeys, iv : Ivs, sent : {Undefined}, payload : {Undefined},
   result : {<<>>}, thrown : {"none"}, settled : {Pending}]

NoCipher ==
  [pc |-> "off", plaintext |-> <<>>, recipient |-> 1, reader |-> 1, aesKey |-> "aes1",
   iv |-> "iv1", sent |-> Undefined, payload |-> Undefined, result |-> <<>>,
   thrown |-> "none", settled |-> Pending]

PayloadFields == {"iv", "wrappedKey", "ciphertext"}

\* payload = await encryptMessageForRecipient(plaintext, K.publicKeyPem)
Encrypt ==
  /\ cipher.pc = "start"
  /\ LET K == generateRsaKeyPair(cipher.recipient)
         payload == encryptMessageForRecipient(cipher.plaintext,
                      exportPublicKeyToPem(K.publicKey), cipher.aesKey, cipher.iv)
     IN /\ payload.ok
        /\ cipher' = [cipher EXCEPT !.pc = "encrypted", !.sent = payload.val,
                                    !.payload = payload.val]
  /\ UNCHANGED <<kmVars, authVars, chatVars, classifier, legacy>>

\* The payload is changed on its way: the bytes of a field are altered
\* ("bytes"), or only its base64 spelling, into another spelling of the same
\* bytes ("slack") or into one that is not base64 ("invalid").
TamperPayload(field, how) ==
  /\ cipher.pc = "encrypted"
  /\ cipher.payload.t = "object"
  /\ cipher.payload[field] = cipher.sent[field]
  /\ LET old == cipher.payload[field]
         new == IF how = "bytes" THEN [old EXCEPT !.bytes = [k |-> "altered", of |-> @]]
                ELSE [old EXCEPT !.form = how]
     IN cipher' = [cipher EXCEPT !.payload[field] = new]
  /\ UNCHANGED <<kmVars, authVars, chatVars, classifier, legacy>>

\* What arrives is not the payload that was sent but a value of another
\* shape: null, a number, an object with another alg, or an object that
\* lacks one of the binary fields.
MalformedKinds == {"null", "number", "alg"} \cup PayloadFields

MalformPayload(kind) ==
  /\ cipher.pc = "encrypted"
  /\ cipher.payload.t = "object"
  /\ cipher' = [cipher EXCEPT !.payload =
       IF kind = "null" THEN Null
       ELSE IF kind = "number" THEN [t |-> "number"]
       ELSE IF kind = "alg" THEN [@ EXCEPT !.alg = Str("RSA-OAEP")]
       ELSE [@ EXCEPT ![kind] = Undefined]]
  /\ cipher'.payload # cipher.payload
  /\ UNCHANGED <<kmVars, authVars, chatVars, classifier, legacy>>

\* result = await decryptMessagePayload(payload, reader.privateKey); thrown
\* is the error its try block ended with, settled the way its promise settled.
Decrypt ==
  /\ cipher.pc = "encrypted"
  /\ LET recipientPrivateKey == generateRsaKeyPair(cipher.reader).privateKey
         r == decryptMessagePayloadTry(cipher.payload, recipientPrivateKey)
     IN cipher' = [cipher EXCEPT !.pc = "decrypted",
                     !.result = decryptMessagePayload(cipher.payload, recipientPrivateKey),
                     !.thrown = IF r.ok THEN "none" ELSE r.err,
                     !.settled = decryptMessagePayloadCatch(r)]
  /\ UNCHANGED <<kmVars, authVars, chatVars, classifier, legacy>>

\* ------------------------------------------------ needsDecryption (crypto.js)
\* JavaScript values a caller can pass: objects with any mix of present,
\* absent and wrongly typed fields, null, undefined, a number, a text that
\* is not JSON, and the JSON texts of objects, of null and of a number.
JsNumber == [t |-> "number"]
PinnedAlg == Str("AES-GCM+RSA-OAEP")
AlgValues == {PinnedAlg, Str("RSA-OAEP"), Undefined, JsNumber}
FieldValues == {Undefined, JsNumber, EmptyString, arrayBufferToBase64([k |-> "bytes"])}

JsObjects ==
  [t : {"object"}, alg : AlgValues, iv : FieldValues, wrappedKey : FieldValues,
   ciphertext : FieldValues]

ClassifierTexts ==
  JsObjects \cup {Null, Undefined, JsNumber, Str("Hello"), Str("{not json")}
    \cup {JSON_stringify(v) : v \in JsObjects \cup {Null, JsNumber}}

\* v.name: undefined on a primitive, the field's value on an object.
PropertyOf(v, name) == IF v.t = "object" THEN v[name] ELSE Undefined

\* Fault injection: a classifier that looks at the three fields and not at
\* the alg.
needsDecryptionShape_algUnchecked(v) ==
  IF v.t \in {"null", "undefined"} THEN Throw("TypeError")
  ELSE Ok(/\ PropertyOf(v, "wrappedKey").t = "string"
          /\ PropertyOf(v, "ciphertext").t = "string"
          /\ PropertyOf(v, "iv").t = "string")

\* The returned expression, alg === "AES-GCM+RSA-OAEP" && typeof ... ===
\* "string": reading a property of null or undefined throws a TypeError.
needsDecryptionShape(v) ==
  IF v.t \in {"null", "undefined"} THEN Throw("TypeError")
  ELSE Ok(/\ PropertyOf(v, "alg") = PinnedAlg
          /\ PropertyOf(v, "wrappedKey").t = "string"
          /\ PropertyOf(v, "ciphertext").t = "string"
          /\ PropertyOf(v, "iv").t = "string")

\* Fault injection: JSON.parse and the property reads outside the try block.
needsDecryption_parseUncaught(text) ==
  IF text.t = "object" THEN needsDecryptionShape(text)
  ELSE IF text.t = "string"
       THEN LET parsed == JSON_parse(text)
            IN IF parsed.ok THEN needsDecryptionShape(parsed.val) ELSE parsed
  ELSE Ok(FALSE)

\* needsDecryption: Ok(boolean), or the error it would throw.
needsDecryption(text) ==
  IF text.t = "object" THEN needsDecryptionShape(text)
  ELSE IF text.t = "string"
       THEN LET parsed == JSON_parse(text)
                r == IF parsed.ok THEN needsDecryptionShape(parsed.val) ELSE parsed
            IN IF r.ok THEN r ELSE Ok(FALSE)
  ELSE Ok(FALSE)

NoClassifier == [pc |-> "off", text |-> Undefined, result |-> Ok(FALSE)]

\* result = needsDecryption(text)
Classify ==
  /\ classifier.pc = "start"
  /\ classifier' = [classifier EXCEPT !.pc = "classified",
                                      !.result = needsDecryption(classifier.text)]
  /\ UNCHANGED <<kmVars, authVars, chatVars, cipher, legacy>>

\* The payload arrives with one of its binary fields an empty string.
EmptyField(field) ==
  /\ cipher.pc = "encrypted"
  /\ cipher.payload.t = "object"
  /\ cipher.payload[field] # Undefined
  /\ cipher.payload[field] # EmptyString
  /\ cipher' = [cipher EXCEPT !.payload[field] = EmptyString]
  /\ UNCHANGED <<kmVars, authVars, chatVars, classifier, legacy>>

\* needsDecryption(payload) for the payload decryptMessagePayload was given.
ClassifyPayload ==
  /\ cipher.pc = "decrypted"
  /\ classifier.pc = "off"
  /\ classifier' = [pc |-> "classified", text |-> cipher.payload,
                    result |-> needsDecryption(cipher.payload)]
  /\ UNCHANGED <<kmVars, authVars, chatVars, cipher, legacy>>

\* ------------------------------------------------------------ specifications
InitKeyManager ==
  /\ deviceKeySlot = Undefined
  /\ keyStore = [u \in Users |-> Undefined]
  /\ calls = [p \in Procs |-> IdleCall]
  /\ nextKeyPair = 0
  /\ nextDeviceKey = 0
  /\ backupFile = Undefined
  /\ last = IdleCall
  /\ cleared = FALSE

\* ------------------------------- Passphrase key store (keyStorage.js, legacy)
\* crypto.subtle.exportKey("pkcs8", privateKey)
ExportPkcs8(privateKey) == [k |-> "pkcs8", id |-> privateKey.id]

\* Nothing stored, nothing saved, no call made.
NoLegacy ==
  [store |-> [u \in Users |-> Undefined],
   saved |-> [u \in Users |-> Undefined],
   call |-> [op |-> "none", userId |-> NoUser, passphrase |-> "none", result |-> Pending]]

\* savePrivateKey: the pkcs8 export is encrypted under the key derived from
\* the passphrase and a fresh salt, and put under userId. salt and iv are
\* what the platform RNG returned.
savePrivateKey(userId, privateKey, passphrase, salt, iv) ==
  /\ LET exported == ExportPkcs8(privateKey)
         encryptionKey == Pbkdf2Key(passphrase, salt)
         encryptedPrivateKey == AesGcmEncrypt(encryptionKey, iv, exported)
         record == [userId |-> userId,
                    encryptedPrivateKey |-> arrayBufferToBase64(encryptedPrivateKey),
                    salt |-> arrayBufferToBase64([k |-> "salt", n |-> salt]),
                    iv |-> arrayBufferToBase64([k |-> "iv", n |-> iv])]
     IN legacy' = [store |-> [legacy.store EXCEPT ![userId] = record],
                   saved |-> [legacy.saved EXCEPT ![userId] =
                                [privateKey |-> privateKey, passphrase |-> passphrase]],
                   call |-> [op |-> "savePrivateKey", userId |-> userId,
                             passphrase |-> passphrase, result |-> Returned(Undefined)]]
  /\ UNCHANGED <<kmVars, authVars, chatVars, cipher, classifier>>

\* getPrivateKey, steps 2-5 on a record that was found.
getPrivateKeyTry(record, passphrase) ==
  LET encryptedPrivateKey == base64ToArrayBuffer(record.encryptedPrivateKey)
      salt == base64ToArrayBuffer(record.salt)
      iv == base64ToArrayBuffer(record.iv)
  IN IF ~encryptedPrivateKey.ok \/ ~salt.ok \/ ~iv.ok THEN Throw("InvalidCharacterError")
     ELSE LET decryptionKey == Pbkdf2Key(passphrase, salt.val.n)
              decryptedPrivateKey ==
                AesGcmDecrypt(decryptionKey, iv.val.n, encryptedPrivateKey.val)
          IN IF ~decryptedPrivateKey.ok THEN decryptedPrivateKey
             ELSE IF decryptedPrivateKey.val.k # "pkcs8" THEN Throw("DataError")
             ELSE Ok([type |-> "private", id |-> decryptedPrivateKey.val.id,
                      usages |-> {"decrypt", "unwrapKey"}])

\* Fault injection: a catch block that reports a failed retrieval as "not
\* found".
getPrivateKeyCatch_returnsNull(error) == Returned(Null)

\* The catch block of getPrivateKey.
getPrivateKeyCatch(error) ==
  Rejected("Private key retrieval failed. Check your passphrase.")

getPrivateKey(userId, passphrase) ==
  /\ LET record == legacy.store[userId]
         privateKey == getPrivateKeyTry(record, passphrase)
         result == IF record = Undefined THEN Returned(Null)
                   ELSE IF privateKey.ok THEN Returned(privateKey.val)
                   ELSE getPrivateKeyCatch(privateKey.err)
     IN legacy' = [legacy EXCEPT !.call = [op |-> "getPrivateKey", userId |-> userId,
                                           passphrase |-> passphrase, result |-> result]]
  /\ UNCHANGED <<kmVars, authVars, chatVars, cipher, classifier>>

deletePrivateKey(userId) ==
  /\ legacy' = [store |-> [legacy.store EXCEPT ![userId] = Undefined],
                saved |-> [legacy.saved EXCEPT ![userId] = Undefined],
                call |-> [op |-> "deletePrivateKey", userId |-> userId,
                          passphrase |-> "none", result |-> Returned(Undefined)]]
  /\ UNCHANGED <<kmVars, authVars, chatVars, cipher, classifier>>

InitApp ==
  /\ authStore = [authUser |-> NoUser, encryptionKeys |-> Null,
                  hasEncryptionKey |-> FALSE, isEncryptionEnabled |-> FALSE]
  /\ keyDirectory = [u \in Users |-> Undefined]
  /\ request = [url |-> "none", body |-> Undefined]
  /\ messages = <<>>
  /\ selectedUser = NoUser
  /\ sends = [s \in SendSlots |-> IdleSend]
  /\ fetching = NotFetching
  /\ serverMessages = <<>>

Init ==
  /\ InitKeyManager /\ InitApp /\ cipher = NoCipher /\ classifier = NoClassifier
  /\ legacy = NoLegacy

\* An unreadable record: the stored ciphertext no longer authenticates
\* (StorageCorruptError of the error taxonomy).
CorruptRecord(userId) ==
  /\ keyStore[userId] # Undefined
  /\ keyStore[userId].encryptedPrivateKey.k = "gcm"
  /\ keyStore' = [keyStore EXCEPT ![userId].encryptedPrivateKey =
                    [k |-> "corrupt", of |-> @]]
  /\ UNCHANGED <<deviceKeySlot, calls, nextKeyPair, nextDeviceKey, backupFile, last, cleared,
                 outsideKeyManager>>

\* The backup strings the user can hand to an import.
BackupInputs == IF backupFile = Undefined THEN {} ELSE {backupFile}

\* The steps every key manager call in flight goes through.
KeyManagerSteps(p) ==
  \/ getDeviceKey_get(p)
  \/ getDeviceKey_put(p)
  \/ initializeKeys_put(p)
  \/ restoreKeys_finish(p)

\* The calls of the key manager that need no backup, made from outside by p.
CoreCalls(p) ==
  \/ \E u \in Users : initializeKeys(p, u, "idle", "idle")
  \/ \E u \in Users : restoreKeys(p, u, "idle", "idle")
  \/ \E u \in Users : hasKeys(p, u)
  \/ \E u \in Users : deleteKeys(p, u, "idle", "idle")
  \/ clearDeviceKey(p)
  \/ KeyManagerSteps(p)

\* Export and import of backups, made from outside by p.
BackupCalls(p) ==
  \/ \E u \in Users, w \in Passwords : exportKeyBackup(p, u, w, "idle", "idle")
  \/ exportKeyBackup_finish(p)
  \/ \E u \in Users, w \in Passwords, b \in BackupInputs :
       importKeyBackup(p, b, w, u, "idle", "idle")
  \/ importKeyBackup_put(p)

\* Versions a backup of another format can carry.
UnsupportedVersions == {0, 2}

\* The user's backup with another version number, otherwise unchanged.
OtherVersionBackups ==
  IF backupFile = Undefined THEN {}
  ELSE {JSON_stringify([JSON_parse(backupFile).val EXCEPT !.version = v]) :
          v \in UnsupportedVersions}

\* Any callers, any interleaving of their calls at the awaits.
Next == \E p \in Procs : CoreCalls(p)

Spec == Init /\ [][Next]_vars

\* One caller awaiting each call before the next, backups included.
NextBackup == CoreCalls("c1") \/ BackupCalls("c1")

SpecBackup == Init /\ [][NextBackup]_vars

\* One caller, whose imports may also be given a backup of another version.
NextBackupVersions ==
  \/ NextBackup
  \/ \E u \in Users, w \in Passwords, b \in OtherVersionBackups :
       importKeyBackup("c1", b, w, u, "idle", "idle")

SpecBackupVersions == Init /\ [][NextBackupVersions]_vars

\* The user's backup damaged in one field: a ciphertext that no longer
\* authenticates, another salt, another iv.
CorruptBackups ==
  IF backupFile = Undefined THEN {}
  ELSE LET backup == JSON_parse(backupFile).val
       IN {JSON_stringify([backup EXCEPT !.encryptedPrivateKey = [k |-> "corrupt", of |-> @]]),
           JSON_stringify([backup EXCEPT !.salt = "salt2"]),
           JSON_stringify([backup EXCEPT !.iv = "iv2"])}

\* One caller, whose imports may also be given a damaged backup.
NextBackupCorrupt ==
  \/ NextBackup
  \/ \E u \in Users, w \in Passwords, b \in CorruptBackups :
       importKeyBackup("c1", b, w, u, "idle", "idle")

SpecBackupCorrupt == Init /\ [][NextBackupCorrupt]_vars

\* One caller, on a store whose records can become unreadable.
NextStorage == CoreCalls("c1") \/ \E u \in Users : CorruptRecord(u)

SpecStorage == Init /\ [][NextStorage]_vars

\* The hybrid cipher applied to every input.
InitCipher ==
  /\ InitKeyManager /\ InitApp /\ cipher \in CipherInputs /\ classifier = NoClassifier
  /\ legacy = NoLegacy

NextCipher ==
  \/ Encrypt
  \/ \E f \in PayloadFields, how \in {"bytes", "slack", "invalid"} : TamperPayload(f, how)
  \/ Decrypt

SpecCipher == InitCipher /\ [][NextCipher]_vars

\* needsDecryption applied to every value.
InitClassifier ==
  /\ InitKeyManager /\ InitApp /\ cipher = NoCipher
  /\ classifier \in [pc : {"start"}, text : ClassifierTexts, result : {Ok(FALSE)}]
  /\ legacy = NoLegacy

NextClassifier == Classify

SpecClassifier == InitClassifier /\ [][NextClassifier]_vars

\* decryptMessagePayload applied to whatever arrives, well-formed or not.
NextPayload ==
  \/ NextCipher
  \/ \E kind \in MalformedKinds : MalformPayload(kind)

SpecPayload == InitCipher /\ [][NextPayload]_vars

\* The classifier and the decryptor applied to the same payload; the shape
\* of a payload does not depend on what the RNG returned.
InitAgreement ==
  /\ InitKeyManager /\ InitApp /\ classifier = NoClassifier /\ legacy = NoLegacy
  /\ cipher \in {c \in CipherInputs : c.aesKey = "aes1" /\ c.iv = "iv1"}

NextAgreement ==
  \/ NextPayload
  \/ \E f \in PayloadFields : EmptyField(f)
  \/ ClassifyPayload

SpecAgreement == InitAgreement /\ [][NextAgreement]_vars

\* The actions of the auth store, made by caller p.
AuthActions(p) ==
  \/ \E u \in Users : login(p, u)
  \/ logout(p)
  \/ logout_post(p)
  \/ initializeEncryptionKeys(p)
  \/ initializeEncryptionKeys_register(p)
  \/ restoreEncryptionKeys(p)
  \/ restoreEncryptionKeys_set(p)
  \/ toggleEncryption(p)
  \/ \E w \in Passwords : exportEncryptionBackup(p, w)
  \/ exportEncryptionBackup_return(p)
  \/ \E w \in Passwords, b \in BackupInputs : importEncryptionBackup(p, b, w)
  \/ importEncryptionBackup_restore(p)
  \/ importEncryptionBackup_set(p)

\* The actions of the chat store, the backend and other clients.
ChatActions ==
  \/ \E u \in Users \ {authStore.authUser} : setSelectedUser(u)
  \/ \E u \in Users \cap {selectedUser} : getMessagesByUserId(u)
  \/ getMessagesByUserId_response
  \/ \E s \in SendSlots, t \in Texts : sendMessage(s, MessageData(t, Null, FALSE))
  \/ \E s \in SendSlots : sendMessage_response(s)
  \/ \E u \in Users, r \in Users, t \in Texts, kind \in {"plain", "encrypted", "damaged"} :
       PeerMessage(u, r, t, kind, "aes1", "iv1")

\* The auth store over the key manager and the key directory, one caller.
NextAuth ==
  \/ AuthActions("c1")
  \/ KeyManagerSteps("c1")
  \/ exportKeyBackup_finish("c1")
  \/ importKeyBackup_put("c1")

SpecAuth == Init /\ [][NextAuth]_vars

\* Every action that hands a value to the key directory, to the transport
\* or, as a backup string, to the user.
NextBoundary ==
  \/ \E u \in Users : login("c1", u)
  \/ initializeEncryptionKeys("c1")
  \/ getDeviceKey_get("c1")
  \/ getDeviceKey_put("c1")
  \/ initializeKeys_put("c1")
  \/ initializeEncryptionKeys_register("c1")
  \/ \E w \in Passwords : exportEncryptionBackup("c1", w)
  \/ exportKeyBackup_finish("c1")
  \/ exportEncryptionBackup_return("c1")
  \/ \E u \in Users \ {authStore.authUser} : setSelectedUser(u)
  \/ \E s \in SendSlots, t \in Texts : sendMessage(s, MessageData(t, Null, FALSE))
  \/ \E s \in SendSlots : sendMessage_response(s)

SpecBoundary == Init /\ [][NextBoundary]_vars

\* Key setup of the signed-in user, on a store whose writes can fail.
NextRegister ==
  \/ \E u \in Users : login("c1", u)
  \/ logout("c1")
  \/ logout_post("c1")
  \/ initializeEncryptionKeys("c1")
  \/ getDeviceKey_get("c1")
  \/ getDeviceKey_put("c1")
  \/ initializeKeys_put("c1")
  \/ initializeKeys_fail("c1")
  \/ initializeEncryptionKeys_register("c1")
  \/ initializeEncryptionKeys_catch("c1")

SpecRegister == Init /\ [][NextRegister]_vars

\* The chat store of a user who signs in and sets up encryption, the
\* backend and the messages of other clients.
NextChat ==
  \/ \E u \in Users : login("c1", u)
  \/ initializeEncryptionKeys("c1")
  \/ getDeviceKey_get("c1")
  \/ getDeviceKey_put("c1")
  \/ initializeKeys_put("c1")
  \/ initializeEncryptionKeys_register("c1")
  \/ ChatActions

SpecChat == Init /\ [][NextChat]_vars

\* The envelope a client that encrypts makes of text for a recipient's
\* registered key pair.
EnvelopeFor(text) ==
  encryptMessageForRecipient(text, exportPublicKeyToPem(generateRsaKeyPair(1).publicKey),
                             "aes1", "iv1").val

\* The chat store and the backend, with message data that carries an
\* envelope and the isEncrypted flag in place of the text.
NextTransport ==
  \/ NextChat
  \/ \E s \in SendSlots, t \in Texts :
       sendMessage(s, MessageData(<<>>, EnvelopeFor(t), TRUE))

SpecTransport == Init /\ [][NextTransport]_vars

\* The passphrase store on its own: keys are saved, read back and deleted.
NextLegacy ==
  \/ \E u \in Users, id \in KeyIds, w \in Passwords, salt \in Salts, iv \in Ivs :
       savePrivateKey(u, generateRsaKeyPair(id).privateKey, w, salt, iv)
  \/ \E u \in Users, w \in Passwords : getPrivateKey(u, w)
  \/ \E u \in Users : deletePrivateKey(u)

SpecLegacy == Init /\ [][NextLegacy]_vars

\* The whole life of the keys on one device: every auth store action with
\* the key manager calls it makes, the read-only queries and the reset.
NextLifecycle ==
  \/ AuthActions("c1")
  \/ KeyManagerSteps("c1")
  \/ exportKeyBackup_finish("c1")
  \/ importKeyBackup_put("c1")
  \/ \E u \in Users : hasKeys("c1", u)
  \/ \E u \in Users : getEncryptionStatus("c1", u)
  \/ clearDeviceKey("c1")

SpecLifecycle == Init /\ [][NextLifecycle]_vars

\* ------------------------------------------------------------------ properties
\* C1: getDeviceKey is race-safe: in every interleaving of calls that start
\* while no device key is persisted, every caller receives the same key and
\* that key is the one left in the 'device-key' slot.
C1_DeviceKeyRaceSafe ==
  ~cleared =>
    \A p \in Procs :
      calls[p].dk # 0 => deviceKeySlot # Undefined /\ calls[p].dk = deviceKeySlot.dev

\* C2: while clearDeviceKey has never been called, every StoredKeyRecord is
\* encrypted under the device key persisted in the slot, so restoreKeys
\* returns a key pair, not null, for every user that has a record.
C2_RecordsUnderPersistedDeviceKey ==
  ~cleared =>
    \A u \in Users :
      keyStore[u] # Undefined =>
        /\ deviceKeySlot # Undefined
        /\ keyStore[u].encryptedPrivateKey.key = DeviceKey(deviceKeySlot.dev)
        /\ restoreKeysCatch(
             restoreKeysTry(keyStore[u], DeviceKey(deviceKeySlot.dev))).val # Null

\* C3: round trip: decryptMessagePayload of the unmodified payload that
\* encryptMessageForRecipient made for K.publicKeyPem, under K.privateKey,
\* is the plaintext that was encrypted.
C3_RoundTrip ==
  (cipher.pc = "decrypted" /\ cipher.payload = cipher.sent
     /\ cipher.reader = cipher.recipient)
    => cipher.result = cipher.plaintext

\* The password given to an import is the one its backup was exported with.
PasswordMatches(c) == JSON_parse(c.input).val.encryptedPrivateKey.key.pw = c.pw

\* The private key of the pair a public key PEM was exported from.
OriginalPrivateKey(publicKeyPem) ==
  generateRsaKeyPair(importPublicKeyFromPem(publicKeyPem).val.id).privateKey

\* C4: backup round trip: an import with the export's password returns true,
\* and a later restoreKeys of the imported record returns a key pair whose
\* private key decrypts every message encrypted against the original
\* publicKeyPem, as the original private key does.
C4_BackupRoundTrip ==
  /\ (last.op = "importKeyBackup" /\ PasswordMatches(last))
       => last.result = Returned(Bool(TRUE))
  /\ (last.op = "restoreKeys" /\ last.rec # Undefined /\ last.rec.importedAt /\ ~cleared)
       => /\ last.result.val # Null
          /\ \A P \in Plaintexts, k \in AesKeys, iv \in Ivs :
               LET payload == encryptMessageForRecipient(P, last.rec.publicKeyPem, k, iv).val
               IN decryptMessagePayload(payload, last.result.val.privateKey)
                    = decryptMessagePayload(payload, OriginalPrivateKey(last.rec.publicKeyPem))

\* C5: importKeyBackup with a password other than the export's returns
\* false and writes nothing: the step in which it settles leaves the whole
\* key store as it was, and no such import ever gets as far as the db.put.
C5_WrongPasswordWritesNothing ==
  /\ [](\A p \in Procs :
          calls[p].op = "importKeyBackup" => PasswordMatches(calls[p]))
  /\ [][(last' # last /\ last'.op = "importKeyBackup" /\ ~PasswordMatches(last'))
          => (last'.result = Returned(Bool(FALSE)) /\ keyStore' = keyStore)]_vars

\* A refused import of a backup for a user who already had a record.
C5_Witness ==
  /\ last.op = "importKeyBackup"
  /\ ~PasswordMatches(last)
  /\ last.result = Returned(Bool(FALSE))
  /\ keyStore[last.user] # Undefined

\* C6 as first stated: with any other private key, or after any change to
\* the ciphertext or wrappedKey field of the payload, decryptMessagePayload
\* ends in the decryption failure.
C6_AnyChangeFails ==
  (cipher.pc = "decrypted"
     /\ (\/ cipher.reader # cipher.recipient
         \/ cipher.payload.ciphertext # cipher.sent.ciphertext
         \/ cipher.payload.wrappedKey # cipher.sent.wrappedKey))
    => cipher.result = FallbackText

\* The bytes a payload field decodes to differ from those that were sent, or
\* the field no longer decodes.
DecodesDifferently(field) ==
  \/ ~base64ToArrayBuffer(cipher.payload[field]).ok
  \/ base64ToArrayBuffer(cipher.payload[field]).val
       # base64ToArrayBuffer(cipher.sent[field]).val

\* C6: with any other private key, or after any change to the bytes that
\* ciphertext or wrappedKey decode to, decryptMessagePayload ends in the
\* decryption failure, never in some other plaintext; and whenever it yields
\* a text other than the failure text, that text is the decoding of what
\* was encrypted.
C6_WrongKeyOrChangedBytesFail ==
  cipher.pc = "decrypted" =>
    /\ (\/ cipher.reader # cipher.recipient
        \/ DecodesDifferently("ciphertext")
        \/ DecodesDifferently("wrappedKey"))
         => cipher.result = FallbackText
    /\ cipher.result # FallbackText
         => cipher.result = TextDecoder_decode(TextEncoder_encode(cipher.plaintext))

\* A payload whose ciphertext bytes were changed is refused.
C6_Witness ==
  /\ cipher.pc = "decrypted"
  /\ cipher.reader = cipher.recipient
  /\ cipher.payload.ciphertext.bytes # cipher.sent.ciphertext.bytes
  /\ cipher.plaintext # FallbackText
  /\ cipher.result = FallbackText

\* C7: outgoing messages are encrypted: when encryption is enabled and keys
\* are loaded, what sendMessage hands to the transport is a MessagePayload
\* made for the recipient's registered public key, with isEncrypted = true
\* and without the plaintext text.
C7_OutgoingMessagesEncrypted ==
  [][\A s \in SendSlots :
       (sends[s].pc = "idle" /\ sends'[s].pc = "posted"
          /\ authStore.isEncryptionEnabled /\ authStore.encryptionKeys # Null)
         => /\ request'.body.isEncrypted
            /\ request'.body.messagePayload # Null
            /\ request'.body.text = <<>>]_vars

\* What the claim has decryptMessages make of message m with the keys loaded.
ExpectedDecryption(m, keys) ==
  IF ~(m.isEncrypted /\ m.messagePayload # Null) THEN m
  ELSE LET r == IF keys = Null THEN Throw("no keys")
                ELSE decryptMessagePayloadTry(m.messagePayload, keys.privateKey)
       IN IF r.ok THEN [m EXCEPT !.text = r.val]
          ELSE [m EXCEPT !.text = FallbackText, !.decryptionFailed = TRUE]

\* C8: batch decryption is failure-isolated and position-stable: the list
\* getMessagesByUserId stores has one result per fetched message, in order;
\* a flagged message that decrypts carries the plaintext, one that does not
\* carries the fallback text and the decryption-failed flag.
C8_BatchDecryption ==
  [][(fetching.isMessagesLoading /\ ~fetching'.isMessagesLoading
        /\ authStore.authUser # NoUser /\ messages' # messages)
       => LET batch == backend_getMessagesByUserId(authStore.authUser, fetching.userId)
          IN /\ Len(messages') = Len(batch)
             /\ \A i \in 1..Len(batch) :
                  messages'[i] = ExpectedDecryption(batch[i], authStore.encryptionKeys)]_vars

\* A ciphertext made under a device key.
DeviceEncrypted(ct) == ct.k = "gcm" /\ "dev" \in DOMAIN ct.key

\* A PEM that carries a public key and nothing else.
PublicPemOnly(v) == v.t = "pem" /\ v.label = "PUBLIC KEY" /\ v.body.bytes.k = "spki"

\* A backup string whose only key material is the public PEM and the
\* private JWK encrypted under the key derived from the password.
BackupStringSafe(s) ==
  LET backup == s.json
  IN /\ DOMAIN backup = {"version", "userId", "publicKeyPem", "encryptedPrivateKey",
                         "salt", "iv"}
     /\ PublicPemOnly(backup.publicKeyPem)
     /\ backup.encryptedPrivateKey.k = "gcm"
     /\ ~DeviceEncrypted(backup.encryptedPrivateKey)
     /\ \E w \in Passwords, salt \in Salts :
          backup.encryptedPrivateKey.key = Pbkdf2Key(w, salt)

\* A request body that carries no private-key material.
RequestSafe(r) ==
  CASE r.url = "/keys/register" ->
         /\ DOMAIN r.body = {"userId", "publicKeyPem", "keyId"}
         /\ PublicPemOnly(r.body.publicKeyPem)
    [] r.url = "/messages/send/:id" ->
         /\ DOMAIN r.body = {"text", "messagePayload", "isEncrypted"}
         /\ r.body.text \in Texts
         /\ r.body.messagePayload = Null
    [] r.url = "/auth/login" -> DOMAIN r.body = {"email"}
    [] OTHER -> r.body = Undefined

\* C9: private-key material never crosses the device boundary in plaintext
\* or in device-key-encrypted form: what reaches the key directory, what is
\* handed to the network and what is returned as a backup string holds, of
\* the key material, only the public key PEM and the password-wrapped
\* encryptedPrivateKey of a BackupRecord.
C9_PrivateKeyStaysOnDevice ==
  /\ \A u \in Users : keyDirectory[u] # Undefined => PublicPemOnly(keyDirectory[u])
  /\ RequestSafe(request)
  /\ backupFile # Undefined => BackupStringSafe(backupFile)
  /\ (last.op = "exportEncryptionBackup" /\ last.result.val # Null)
       => BackupStringSafe(last.result.val)

\* A backup has been returned to a user whose public key is registered.
C9_Witness ==
  /\ last.op = "exportEncryptionBackup"
  /\ last.result.val # Null
  /\ keyDirectory[last.user] # Undefined
  /\ backupFile = last.result.val

\* The record restoreKeys read cannot be decrypted under the device key it got.
Undecryptable(c) ==
  ~decryptWithDeviceKey(c.rec.encryptedPrivateKey, c.rec.iv, DeviceKey(c.dk)).ok

\* C10: restoreKeys never throws: it returns null when no StoredKeyRecord
\* exists for the user, and null for every decryption failure, whether the
\* record is corrupt or was encrypted under another device key.
C10_RestoreKeysNeverThrows ==
  last.op = "restoreKeys" =>
    /\ last.result.kind = "returned"
    /\ last.rec = Undefined => last.result.val = Null
    /\ (last.rec # Undefined /\ Undecryptable(last)) => last.result.val = Null

\* restoreKeys has returned null for a record encrypted under a device key
\* other than the one now persisted.
C10_Witness ==
  /\ last.op = "restoreKeys"
  /\ last.rec # Undefined
  /\ last.rec.encryptedPrivateKey.k = "gcm"
  /\ last.rec.encryptedPrivateKey.key # DeviceKey(last.dk)
  /\ last.result = Returned(Null)

\* Two results of restoreKeys are equivalent: both null, or key pairs with
\* the same publicKeyPem whose private keys decrypt every payload alike.
EquivalentKeys(a, b) ==
  IF a = Null \/ b = Null THEN a = b
  ELSE /\ a.publicKeyPem = b.publicKeyPem
       /\ \A P \in Plaintexts, k \in AesKeys, iv \in Ivs :
            LET payload == encryptMessageForRecipient(P, a.publicKeyPem, k, iv).val
            IN decryptMessagePayload(payload, a.privateKey)
                 = decryptMessagePayload(payload, b.privateKey)

\* A step of a restoreKeys call: it starts, goes on or settles.
RestoreKeysStep ==
  \E p \in Procs :
    \/ calls[p].op = "restoreKeys"
    \/ calls'[p].op = "restoreKeys"
    \/ last' # last /\ last'.op = "restoreKeys"

\* C11: restoreKeys is idempotent: when a restoreKeys(userId) settles right
\* after another restoreKeys(userId), with no other call in between, both
\* return equivalent key pairs (or both null); and no step of restoreKeys
\* changes the StoredKeyRecord of any user.
C11_RestoreKeysIdempotent ==
  /\ [][(last.op = "restoreKeys" /\ last'.op = "restoreKeys" /\ last'.user = last.user)
          => (/\ last'.result.kind = "returned"
              /\ EquivalentKeys(last.result.val, last'.result.val))]_vars
  /\ [][RestoreKeysStep => keyStore' = keyStore]_vars

\* A restoreKeys has returned a key pair and the next restoreKeys of the
\* same user, started right after it, stands at its last step.
C11_Witness ==
  /\ last.op = "restoreKeys"
  /\ last.result.val # Null
  /\ calls["c1"].op = "restoreKeys"
  /\ calls["c1"].pc = "restoreKeys_finish"
  /\ calls["c1"].user = last.user
  /\ keyStore[last.user] = last.rec

\* C12: initializeKeys moves the user to Present and the keys persist: while
\* the record initializeKeys wrote has not been deleted or replaced by an
\* import and the device key has not been cleared, hasKeys is true and
\* restoreKeys returns a key pair with the stored publicKeyPem whose private
\* key decrypts the messages encrypted to that PEM.
C12_InitializeKeysPersist ==
  /\ (last.op = "hasKeys" /\ keyStore[last.user] # Undefined
        /\ ~keyStore[last.user].importedAt)
       => last.result = Returned(Bool(TRUE))
  /\ (last.op = "restoreKeys" /\ last.rec # Undefined /\ ~last.rec.importedAt /\ ~cleared)
       => /\ last.result.val # Null
          /\ last.result.val.publicKeyPem = last.rec.publicKeyPem
          /\ \A P \in Plaintexts, k \in AesKeys, iv \in Ivs :
               LET payload == encryptMessageForRecipient(P, last.rec.publicKeyPem, k, iv).val
               IN decryptMessagePayload(payload, last.result.val.privateKey)
                    = TextDecoder_decode(TextEncoder_encode(P))

\* What restoreKeys(userId) returns from the stores as they stand, for a
\* persisted device key.
RestoreOutcome(userId) ==
  IF keyStore[userId] = Undefined THEN Returned(Null)
  ELSE restoreKeysCatch(restoreKeysTry(keyStore[userId], DeviceKey(deviceKeySlot.dev)))

C14_DeviceKeyRemovedOnlyByClear ==
  [][(deviceKeySlot # Undefined /\ deviceKeySlot' = Undefined)
       => \E p \in Procs : clearDeviceKey(p)]_vars

\* A signed-in user's logout has deleted the record and the device key is
\* still in its slot.
C14_Witness ==
  /\ last.op = "logout"
  /\ last.user \in Users
  /\ keyStore[last.user] = Undefined
  /\ deviceKeySlot # Undefined

\* C15: keys are deleted on logout: when logout() of a signed-in user
\* returns, that user's StoredKeyRecord is gone from the local store and the
\* in-memory key state (encryptionKeys, hasEncryptionKey,
\* isEncryptionEnabled) is reset; the two never diverge.
C15_LogoutDeletesKeys ==
  [][\A p \in Procs :
       (calls[p].pc = "logout_post" /\ calls[p].user \in Users /\ calls'[p].pc = "idle")
         => /\ keyStore'[calls[p].user] = Undefined
            /\ authStore'.encryptionKeys = Null
            /\ ~authStore'.hasEncryptionKey
            /\ ~authStore'.isEncryptionEnabled]_vars

FormatViolation(messagePayload) ==
  /\ messagePayload.t = "object"
  /\ \/ messagePayload.alg # Str("AES-GCM+RSA-OAEP")
     \/ \E f \in PayloadFields : messagePayload[f] = Undefined

\* The errors the validation of the payload structure throws.
PayloadFormatErrors ==
  {"Unsupported algorithm", "Invalid message payload: missing required fields"}

\* C17: the payload format is pinned: for a payload whose alg is not
\* 'AES-GCM+RSA-OAEP' or that lacks iv, wrappedKey or ciphertext, the error
\* decryptMessagePayload ends with is the one of the payload validation,
\* not one of base64 decoding, key unwrap or AES decryption, whatever the
\* private key and the other fields are, and no plaintext comes out.
C17_PayloadFormatPinned ==
  (cipher.pc = "decrypted" /\ FormatViolation(cipher.payload))
    => /\ cipher.thrown \in PayloadFormatErrors
       /\ cipher.result = FallbackText

\* A payload with another alg, otherwise intact and read with the matching
\* private key, has been refused by the validation.
C17_Witness ==
  /\ cipher.pc = "decrypted"
  /\ cipher.payload = [cipher.sent EXCEPT !.alg = Str("RSA-OAEP")]
  /\ cipher.reader = cipher.recipient
  /\ cipher.plaintext # FallbackText
  /\ cipher.thrown = "Unsupported algorithm"
  /\ cipher.result = FallbackText

\* The value is an encrypted envelope: an object with the pinned alg and
\* string-typed iv, wrappedKey and ciphertext.
IsEnvelope(v) ==
  /\ v.t = "object"
  /\ v.alg = PinnedAlg
  /\ \A f \in PayloadFields : v[f].t = "string"

\* C18: needsDecryption is a total classifier: for every value it returns a
\* boolean without throwing, and it returns true exactly when the value, or
\* the value parsed from a JSON string, is an object with alg =
\* 'AES-GCM+RSA-OAEP' and string-typed iv, wrappedKey and ciphertext.
C18_NeedsDecryptionTotal ==
  classifier.pc = "classified" =>
    /\ classifier.result.ok
    /\ classifier.result.val \in BOOLEAN
    /\ classifier.result.val =
         (\/ IsEnvelope(classifier.text)
          \/ /\ classifier.text.t = "string"
             /\ JSON_parse(classifier.text).ok
             /\ IsEnvelope(JSON_parse(classifier.text).val))

\* The JSON text 'null', whose parsed value has no properties, has been
\* classified as not encrypted.
C18_Witness ==
  /\ classifier.pc = "classified"
  /\ classifier.text = JSON_stringify(Null)
  /\ classifier.result = Ok(FALSE)

\* A step of an exportKeyBackup call: it starts, goes on or settles.
ExportKeyBackupStep ==
  \E p \in Procs :
    \/ calls[p].op = "exportKeyBackup"
    \/ calls'[p].op = "exportKeyBackup"
    \/ last' # last /\ last'.op = "exportKeyBackup"

\* C19: exportKeyBackup requires the Present state: called for a user
\* without a StoredKeyRecord it rejects, and the step in which it does so
\* produces no backup; and no step of exportKeyBackup, failing or not,
\* changes the StoredKeyRecord store.
C19_ExportRequiresPresent ==
  /\ []((last.op = "exportKeyBackup" /\ last.rec = Undefined)
          => last.result.kind = "rejected")
  /\ [][(last' # last /\ last'.op = "exportKeyBackup" /\ last'.rec = Undefined)
          => backupFile' = backupFile]_vars
  /\ [][ExportKeyBackupStep => keyStore' = keyStore]_vars

\* An export for a user without a record has been rejected while another
\* user has a record and an earlier backup exists.
C19_Witness ==
  /\ last.op = "exportKeyBackup"
  /\ last.rec = Undefined
  /\ last.result = Rejected("No keys found to export")
  /\ keyStore[last.user] = Undefined
  /\ \E v \in Users : keyStore[v] # Undefined
  /\ backupFile # Undefined

\* The version field of the backup an import was given.
BackupVersion(c) == JSON_parse(c.input).val.version

\* C20: importKeyBackup rejects an unsupported version outright: an import
\* of a backup whose version is not 1 returns false in the step it is
\* called, which leaves the key store as it was, and never goes on to the
\* device key and the db.put, even when the password is the export's and
\* the encrypted private key, salt and iv are those of a valid backup.
C20_UnsupportedVersionRejected ==
  /\ [](\A p \in Procs :
          calls[p].op = "importKeyBackup" => BackupVersion(calls[p]) = 1)
  /\ [][(last' # last /\ last'.op = "importKeyBackup" /\ BackupVersion(last') # 1)
          => (last'.result = Returned(Bool(FALSE)) /\ keyStore' = keyStore)]_vars

\* A backup of version 2, valid otherwise and given with the password it
\* was exported with, has been refused.
C20_Witness ==
  /\ last.op = "importKeyBackup"
  /\ BackupVersion(last) = 2
  /\ PasswordMatches(last)
  /\ last.result = Returned(Bool(FALSE))


\* The importKeyBackup made by the importEncryptionBackup of caller p has
\* settled and its backup was not exported with the password given.
FailedImportReturnedTo(p) ==
  /\ calls[p].pc = "importEncryptionBackup_restore"
  /\ calls[p].op = "importKeyBackup"
  /\ ~PasswordMatches(calls[p])

\* C21 as first stated: a failing backup import propagates to the caller as
\* a rejected call: the promise importKeyBackup returned to
\* importEncryptionBackup is rejected.
C21_ImportFailureRejects ==
  \A p \in Procs : FailedImportReturnedTo(p) => calls[p].result.kind = "rejected"

\* C21: a failing backup import reaches the caller as the value false: the
\* promise importKeyBackup returned to importEncryptionBackup is fulfilled
\* with false, never rejected, and importEncryptionBackup, which owns the
\* user-facing message, returns false in its turn.
C21_ImportFailureReturnsFalse ==
  /\ \A p \in Procs :
       FailedImportReturnedTo(p) => calls[p].result = Returned(Bool(FALSE))
  /\ (last.op = "importEncryptionBackup" /\ last.input # Undefined
        /\ ~PasswordMatches(last))
       => last.result = Returned(Bool(FALSE))

\* importEncryptionBackup has returned false for a backup given with a
\* password other than the export's.
C21_Witness ==
  /\ last.op = "importEncryptionBackup"
  /\ last.input # Undefined
  /\ ~PasswordMatches(last)
  /\ last.result = Returned(Bool(FALSE))
  /\ authStore.authUser = last.user

\* The backup strings an import can be given in this state, damaged or not.
ImportableBackups == BackupInputs \cup CorruptBackups

\* What importKeyBackup hands to its caller for a backup and a password
\* that make its try block fail.
FailedImportOutcome(backupJson, backupPassword) ==
  importKeyBackupCatch(importKeyBackupTry(backupJson, backupPassword).err)

\* C22: the import failure is generic: two imports that fail for different
\* reasons (wrong password, damaged encryptedPrivateKey, salt or iv) give
\* the caller the same outcome, and every failing import settles with that
\* outcome in a step that leaves the key store and the device key slot as
\* they were.
C22_ImportFailureGeneric ==
  /\ [](Cardinality({FailedImportOutcome(i[1], i[2]) :
                        i \in {j \in ImportableBackups \X Passwords :
                                 ~importKeyBackupTry(j[1], j[2]).ok}}) <= 1)
  /\ [][(last' # last /\ last'.op = "importKeyBackup"
           /\ ~importKeyBackupTry(last'.input, last'.pw).ok)
          => /\ last'.result = Returned(Bool(FALSE))
             /\ keyStore' = keyStore
             /\ deviceKeySlot' = deviceKeySlot]_vars

\* An import of a backup with a damaged salt, given with a password it
\* could have been exported with, has failed for a user who has a record.
C22_Witness ==
  /\ last.op = "importKeyBackup"
  /\ JSON_parse(last.input).val.salt = "salt2"
  /\ last.result = Returned(Bool(FALSE))
  /\ keyStore[last.user] # Undefined

\* The POST /keys/register for the key pair the record of userId holds.
RegisterRequestFor(userId) ==
  [url |-> "/keys/register",
   body |-> [userId |-> userId, publicKeyPem |-> keyStore[userId].publicKeyPem,
             keyId |-> Str("v1")]]

\* C23: the public key is registered only after local persistence: the
\* register request is made only by an initializeEncryptionKeys whose
\* initializeKeys has returned, when the StoredKeyRecord is in the store,
\* and it carries exactly the publicKeyPem of that record; when
\* initializeKeys has failed no request is made and the key directory is
\* left as it was.
C23_RegisterAfterPersistence ==
  /\ [][\A p \in Procs :
          (calls[p].pc = "initializeEncryptionKeys_register" /\ calls'[p].pc = "idle")
            => IF calls[p].result.kind = "returned"
               THEN /\ keyStore[calls[p].user] # Undefined
                    /\ request' = RegisterRequestFor(calls[p].user)
               ELSE request' = request /\ keyDirectory' = keyDirectory]_vars
  /\ [][(keyDirectory' # keyDirectory
           \/ (request' # request /\ request'.url = "/keys/register"))
          => \E p \in Procs :
               /\ calls[p].pc = "initializeEncryptionKeys_register"
               /\ calls[p].result.kind = "returned"]_vars

\* initializeEncryptionKeys has returned after registering the public key
\* of the record it persisted.
C23_Witness ==
  /\ last.op = "initializeEncryptionKeys"
  /\ last.result = Returned(Bool(TRUE))
  /\ keyStore[last.user] # Undefined
  /\ request = RegisterRequestFor(last.user)
  /\ keyDirectory[last.user] = keyStore[last.user].publicKeyPem

\* C24: the transport stores the envelope opaquely: a message posted to the
\* backend sendMessage with a messagePayload, isEncrypted = true and no
\* text, from a sender to another existing user, is accepted (201), and the
\* message it persists, answers with and forwards to the receiver carries
\* the same messagePayload and isEncrypted = true.
C24_TransportStoresEnvelope ==
  \A s \in SendSlots :
    LET c == sends[s]
    IN (/\ c.pc = "posted"
        /\ c.finalMessageData.isEncrypted
        /\ c.finalMessageData.messagePayload # Null
        /\ c.finalMessageData.text = <<>>
        /\ c.authUser # c.selectedUser)
         => LET res == backend_sendMessage(c.authUser, c.selectedUser, c.finalMessageData,
                                           Len(serverMessages) + 1)
            IN /\ res.status = 201
               /\ res.data.messagePayload = c.finalMessageData.messagePayload
               /\ res.data.isEncrypted

\* C25: legacy passphrase store: for a key saved with savePrivateKey(userId,
\* key, passphrase), getPrivateKey(userId, p) returns the saved private key
\* when p is the passphrase and throws, returning no key, for every other
\* p; for a userId with no stored record it returns null.
C25_LegacyPassphraseStore ==
  legacy.call.op = "getPrivateKey"
    => LET saved == legacy.saved[legacy.call.userId]
       IN IF saved = Undefined THEN legacy.call.result = Returned(Null)
          ELSE IF legacy.call.passphrase = saved.passphrase
               THEN legacy.call.result = Returned(saved.privateKey)
               ELSE legacy.call.result.kind = "rejected"

\* getPrivateKey was called with another passphrase than the one the key
\* was saved under, and threw.
C25_Witness ==
  /\ legacy.call.op = "getPrivateKey"
  /\ legacy.saved[legacy.call.userId] # Undefined
  /\ legacy.call.passphrase # legacy.saved[legacy.call.userId].passphrase
  /\ legacy.call.result.kind = "rejected"

\* C26: the outcome of decryptMessagePayload is an explicit two-case result:
\* the caller can tell from the returned value alone whether decryption
\* succeeded or failed. No other call, of any payload made by
\* encryptMessageForRecipient and any private key, gives its caller the
\* same value as this one with the opposite outcome, the case of a
\* plaintext that is itself the fallback text included.
C26_TwoCaseResult ==
  cipher.pc = "decrypted"
    => \A plaintext \in Plaintexts, reader \in KeyIds :
         LET r == decryptMessagePayloadTry(EnvelopeFor(plaintext),
                                           generateRsaKeyPair(reader).privateKey)
         IN decryptMessagePayloadCatch(r) = cipher.settled
              => (r.ok <=> cipher.thrown = "none")

\* C27: no received message is lost by a concurrent send: a message that
\* was appended to the messages list, after the optimistic message of a
\* sendMessage, while that sendMessage's request was in flight is still in
\* the list when the sendMessage completes, whether it succeeded or failed.
C27_NoMessageLostBySend ==
  [][\A s \in SendSlots :
       (sends[s].pc = "posted" /\ sends'[s].pc = "idle")
         => LET n == Len(sends[s].messages)
            IN (/\ Len(messages) > n
                /\ SubSeq(messages, 1, n) = sends[s].messages
                /\ messages[n + 1].isOptimistic)
                 => \A i \in (n + 2)..Len(messages) :
                      \E j \in 1..Len(messages') : messages'[j] = messages[i]]_vars

\* C28: initializeKeys does not check the current state: called for a
\* userId that is already Present it overwrites the StoredKeyRecord with
\* the newly generated key pair; afterwards restoreKeys(userId) returns
\* the new pair, and the private key it returned before is no longer what
\* the record of userId gives back.
C28_InitializeKeysOverwrites ==
  [][\A p \in Procs, u \in Users :
       (/\ calls[p].pc = "initializeKeys_put"
        /\ calls[p].user = u
        /\ keyStore[u] # Undefined
        /\ initializeKeys_put(p))
         => LET kp == generateRsaKeyPair(calls[p].kp)
                before == RestoreOutcome(u)
                after == RestoreOutcome(u)'
            IN /\ keyStore'[u] # keyStore[u]
               /\ keyStore'[u].publicKeyPem = exportPublicKeyToPem(kp.publicKey)
               /\ after.kind = "returned" /\ after.val # Null
               /\ after.val.publicKeyPem = exportPublicKeyToPem(kp.publicKey)
               /\ after.val.privateKey.id = kp.privateKey.id
               /\ (before.kind = "returned" /\ before.val # Null)
                    => before.val.privateKey.id # after.val.privateKey.id]_vars

\* initializeKeys has generated a second key pair for a user whose record
\* holds the first and is at its db.put.
C28_Witness ==
  \E p \in Procs :
    /\ calls[p].op = "initializeKeys"
    /\ calls[p].pc = "initializeKeys_put"
    /\ keyStore[calls[p].user] # Undefined
    /\ RestoreOutcome(calls[p].user).kind = "returned"
    /\ RestoreOutcome(calls[p].user).val # Null
    /\ RestoreOutcome(calls[p].user).val.privateKey.id # calls[p].kp

\* C29: whenever the auth store holds loaded encryptionKeys with
\* isEncryptionEnabled = true for the signed-in user, the public key
\* registered for that user in the key directory is the publicKeyPem of
\* the loaded key pair, after every sequence of initializeEncryptionKeys (a
\* failed register call included), restoreEncryptionKeys and
\* importEncryptionBackup.
C29_RegisteredKeyIsLoadedKey ==
  (/\ authStore.authUser # NoUser
   /\ authStore.encryptionKeys # Null
   /\ authStore.isEncryptionEnabled)
    => keyDirectory[authStore.authUser] = authStore.encryptionKeys.publicKeyPem

\* The errors with which decryptMessagePayload rejects the structure of a
\* payload.
StructuralErrors == PayloadFormatErrors \cup {"Invalid message payload: not an object"}

\* needsDecryption and decryptMessagePayload have both been applied to the
\* payload of the run.
BothApplied ==
  cipher.pc = "decrypted" /\ classifier.pc = "classified" /\ classifier.text = cipher.payload

\* C30 as stated: the classifier and the decryptor agree on the envelope
\* shape: every payload returned by encryptMessageForRecipient satisfies
\* needsDecryption, and every object for which needsDecryption returns true
\* passes the structural validation of decryptMessagePayload.
C30_ClassifierAgreesWithDecryptor ==
  BothApplied
    => /\ cipher.payload = cipher.sent => classifier.result = Ok(TRUE)
       /\ classifier.result = Ok(TRUE) => cipher.thrown \notin StructuralErrors

\* C30, amended: every payload returned by encryptMessageForRecipient
\* satisfies needsDecryption, and every object for which needsDecryption
\* returns true and whose iv, wrappedKey and ciphertext are non-empty
\* strings passes the structural validation of decryptMessagePayload.
C30_ClassifierAgreesOnNonEmptyFields ==
  BothApplied
    => /\ cipher.payload = cipher.sent => classifier.result = Ok(TRUE)
       /\ (/\ classifier.result = Ok(TRUE)
           /\ \A f \in PayloadFields : cipher.payload[f] # EmptyString)
            => cipher.thrown \notin StructuralErrors

\* A payload changed on its way, still of the envelope shape with non-empty
\* fields, was classified as encrypted and got past the validation of
\* decryptMessagePayload, which failed further on.
C30_Witness ==
  /\ BothApplied
  /\ cipher.payload # cipher.sent
  /\ classifier.result = Ok(TRUE)
  /\ \A f \in PayloadFields : cipher.payload[f] # EmptyString
  /\ cipher.thrown \notin StructuralErrors \cup {"none"}

====
